---- MODULE Spec2Model ----
(***************************************************************************)
(* Model of the rowing-data server: the ingestion cycle of scraper.ts      *)
(* (scrapeAndSaveData / scrapeSingleUrl writing CSV files and upserting    *)
(* into the rowing_data table) and the time bucketing of analytics.ts.     *)
(***************************************************************************)
EXTENDS Integers, Sequences, FiniteSets, TLC

\* ------------------------------------------------------------------ bounds
MaxCycles == 2      \* scrapeSingleUrl runs started in one behaviour

\* Instants the ingestion clock shows.
Instants == 1..2

\* ------------------------------------------------------- program constants
DEFAULT_URLS == <<"wtrsvghjkl23", "arc2025">>

\* Slots for scrapeAndSaveData calls in flight together.
Jobs == {1, 2}
Urls == {DEFAULT_URLS[i] : i \in 1..Len(DEFAULT_URLS)}

VARIABLES
    store,        \* rowing_data table: sequence of rows in creation order
    now,          \* the clock read by new Date() and CURRENT_TIMESTAMP
    isConnected,  \* database.ts: let isConnected
    csvFiles,     \* timestamped CSV files in DATA_DIR: set of <<url, timestamp>>
    latestCsv,    \* latest-<slug>.csv: url -> timestamp of the file copied, 0 if none
    cycles,       \* scrapeSingleUrl runs started so far
    url,          \* job -> the url argument of scrapeAndSaveData, "" when absent
    pos,          \* job -> index of the source being scraped in the job's sources
    pc,           \* job -> position in scrapeSingleUrl / scrapeAndSaveData
    rowData,      \* job -> rows parsed from the page of the current source
    scrapedAt,    \* job -> scrape instant of the current cycle
    parsed,       \* job -> rowData.length as logged by 'Parsed N rows of data'
    upsertedCount,\* job -> rows of rowData upserted so far in the current cycle
    cycleResult,  \* job -> how scrapeSingleUrl ended: "running", "returned", "threw"
    dbErrors,     \* job -> 'Error saving to database' lines logged in the current cycle
    attempted,    \* job -> sources whose scrapeSingleUrl was started, in order
    scrapeErrors, \* job -> sources logged by 'Error scraping <url>', in order
    jobResult,    \* job -> how scrapeAndSaveData ended: "running", "returned", "threw"
    serialized    \* the callers start a scrapeAndSaveData only when none is in flight

ingestVars == <<store, now, isConnected, csvFiles, latestCsv, cycles, url, pos, pc,
                rowData, scrapedAt, parsed, upsertedCount, cycleResult, dbErrors,
                attempted, scrapeErrors, jobResult, serialized>>

VARIABLES
    hostZone,       \* the time zone of the server process (local-time Date methods)
    timezoneOffset, \* the request's timezone parameter after parseInt
    targetDate,     \* the request's date, as its day number since the epoch
    sampleAt,       \* scrapedAt of the stored sample the request meets
    tpc,            \* "request", then the handler that answered
    startOfDay,     \* getTableAnalytics: startOfDay after the adjustment
    endOfDay,       \* getTableAnalytics: endOfDay after the adjustment
    sevenDaysAgo,   \* getTableAnalytics: sevenDaysAgo
    inToday,        \* the sample is returned by the read of todayData
    inHistorical,   \* the sample is returned by the read of historicalData
    localHour,      \* localHour of the sample in the window filters
    windowsHit,     \* names of the windows whose filter keeps the sample
    dateKey         \* calculateAnalytics: the dateKey the sample is grouped under

timeVars == <<hostZone, timezoneOffset, targetDate, sampleAt, tpc, startOfDay, endOfDay,
              sevenDaysAgo, inToday, inHistorical, localHour, windowsHit, dateKey>>

\* The read handlers (table analytics, team analytics, map) over a filled table.
VARIABLES
    rpc,            \* "none", "request", then the position of the handler that runs
    req,            \* the request: its path and its name parameter
    reqSourceUrl,   \* the request's sourceUrl parameter
    queries,        \* the reads the request has issued against the store, in order
    todayData,      \* getTableAnalytics: rows returned by the first findMany
    historicalData, \* getTableAnalytics: rows returned by the second findMany
    teamNames,      \* getTableAnalytics: the sorted team names
    tableData,      \* getTableAnalytics: entries built so far by teamNames.map
    computed,       \* the values of the handler before res.json serialises them
    response        \* the JSON body sent, [status |-> 0] before that

readVars == <<rpc, req, reqSourceUrl, queries, todayData, historicalData, teamNames,
              tableData, computed, response>>

vars == <<ingestVars, timeVars, readVars>>

\* ------------------------------------------------------------ parsed rows
\* convertToDecimalDegrees: '' when the cell does not match the pattern.
convertToDecimalDegrees(coordinate) ==
    CASE coordinate = "017 00.462N" -> "17.007700"
      [] coordinate = "061 45.873W" -> "-61.764550"
      [] coordinate = "016 30.000S" -> "-16.500000"
      [] OTHER -> ""

\* The cells of one table row, as the page variant v shows them.
Cells(v) ==
    IF v = 1
    THEN [no |-> "1", device |-> "YB3", latitude |-> "017 00.462N",
          longitude |-> "061 45.873W", speed |-> "3.0 knots", course |-> "270",
          nextWaypoint |-> "Finish", dtf |-> "2500", vmg |-> "2.9"]
    ELSE [no |-> "2", device |-> "YB3i", latitude |-> "016 30.000S",
          longitude |-> "", speed |-> "4.0 knots", course |-> "265",
          nextWaypoint |-> "Antigua", dtf |-> "2400", vmg |-> "3.8"]

\* The RowingData object built for one <tr> of the page.
ParsedRow(n, l, v, source, at) ==
    [no |-> Cells(v).no, device |-> Cells(v).device, name |-> n, lastUpdate |-> l,
     latitude |-> Cells(v).latitude, longitude |-> Cells(v).longitude,
     latitudeDecimal |-> convertToDecimalDegrees(Cells(v).latitude),
     longitudeDecimal |-> convertToDecimalDegrees(Cells(v).longitude),
     speed |-> Cells(v).speed, course |-> Cells(v).course,
     nextWaypoint |-> Cells(v).nextWaypoint, dtf |-> Cells(v).dtf, vmg |-> Cells(v).vmg,
     sourceUrl |-> source, scrapedAt |-> at]

\* What a page can show: no row, one row or two rows, each a team, a lastUpdate
\* label and the variant of the other cells.
PageRows == {<<"Team A", "06/12 09:55", 1>>, <<"Team A", "06/12 09:55", 2>>,
             <<"Team A", "06/12 13:55", 1>>, <<"Team B", "06/12 09:55", 2>>}
Pages == {<<>>} \cup {<<r>> : r \in PageRows} \cup {<<r, q>> : r, q \in PageRows}

ParsePage(page, source, at) ==
    [i \in 1..Len(page) |-> ParsedRow(page[i][1], page[i][2], page[i][3], source, at)]

\* ------------------------------------------------------------------ store
\* Mutant: the key is taken on (name, sourceUrl, scrapedAt), so a sample scraped
\* again at another instant is not recognised.
FindUniqueByScrapedAt(s, row) ==
    {i \in 1..Len(s) : /\ s[i].name = row.name
                       /\ s[i].sourceUrl = row.sourceUrl
                       /\ s[i].scrapedAt = row.scrapedAt}

\* Mutant: the key leaves out the team name.
FindUniqueAnyTeam(s, row) ==
    {i \in 1..Len(s) : /\ s[i].sourceUrl = row.sourceUrl
                       /\ s[i].lastUpdate = row.lastUpdate}

\* Rows matching the compound unique key name_sourceUrl_lastUpdate.
FindUnique(s, row) ==
    {i \in 1..Len(s) : /\ s[i].name = row.name
                       /\ s[i].sourceUrl = row.sourceUrl
                       /\ s[i].lastUpdate = row.lastUpdate}

\* Mutant: the update branch forgets speed and overwrites createdAt.
UpdateRowStale(old, row, at, clock) ==
    [old EXCEPT !.no = row.no, !.device = row.device,
                !.latitude = row.latitude, !.longitude = row.longitude,
                !.latitudeDecimal = row.latitudeDecimal,
                !.longitudeDecimal = row.longitudeDecimal,
                !.course = row.course,
                !.nextWaypoint = row.nextWaypoint, !.dtf = row.dtf, !.vmg = row.vmg,
                !.scrapedAt = at, !.createdAt = clock, !.updatedAt = clock]

\* The `update` branch of the upsert: the listed fields and scrapedAt.
UpdateRow(old, row, at, clock) ==
    [old EXCEPT !.no = row.no, !.device = row.device,
                !.latitude = row.latitude, !.longitude = row.longitude,
                !.latitudeDecimal = row.latitudeDecimal,
                !.longitudeDecimal = row.longitudeDecimal,
                !.speed = row.speed, !.course = row.course,
                !.nextWaypoint = row.nextWaypoint, !.dtf = row.dtf, !.vmg = row.vmg,
                !.scrapedAt = at, !.updatedAt = clock]

\* Mutant: the create branch leaves scrapedAt at a fixed default.
CreateRowUnstamped(id, row, at, clock) ==
    [id |-> id, no |-> row.no, device |-> row.device, name |-> row.name,
     lastUpdate |-> row.lastUpdate, latitude |-> row.latitude,
     longitude |-> row.longitude, latitudeDecimal |-> row.latitudeDecimal,
     longitudeDecimal |-> row.longitudeDecimal, speed |-> row.speed,
     course |-> row.course, nextWaypoint |-> row.nextWaypoint, dtf |-> row.dtf,
     vmg |-> row.vmg, sourceUrl |-> row.sourceUrl, scrapedAt |-> 0,
     createdAt |-> clock, updatedAt |-> clock]

\* The `create` branch of the upsert; id, createdAt and updatedAt come from the table.
CreateRow(id, row, at, clock) ==
    [id |-> id, no |-> row.no, device |-> row.device, name |-> row.name,
     lastUpdate |-> row.lastUpdate, latitude |-> row.latitude,
     longitude |-> row.longitude, latitudeDecimal |-> row.latitudeDecimal,
     longitudeDecimal |-> row.longitudeDecimal, speed |-> row.speed,
     course |-> row.course, nextWaypoint |-> row.nextWaypoint, dtf |-> row.dtf,
     vmg |-> row.vmg, sourceUrl |-> row.sourceUrl, scrapedAt |-> at,
     createdAt |-> clock, updatedAt |-> clock]

\* Mutant: a plain create for every row, as createMany did before the unique key.
UpsertCreateOnly(s, row, at, clock) ==
    Append(s, CreateRow(Len(s) + 1, row, at, clock))

\* Mutant: the unique key leaves out the sourceUrl.
UpsertAnySource(s, row, at, clock) ==
    LET hit == {i \in 1..Len(s) : /\ s[i].name = row.name
                                  /\ s[i].lastUpdate = row.lastUpdate}
    IN  IF hit # {}
        THEN LET i == CHOOSE k \in hit : TRUE
             IN  [s EXCEPT ![i] = UpdateRow(s[i], row, at, clock)]
        ELSE Append(s, CreateRow(Len(s) + 1, row, at, clock))

\* prisma.rowingData.upsert: one atomic conditional write on the unique key.
Upsert(s, row, at, clock) ==
    IF FindUnique(s, row) # {}
    THEN LET i == CHOOSE k \in FindUnique(s, row) : TRUE
         IN  [s EXCEPT ![i] = UpdateRow(s[i], row, at, clock)]
    ELSE Append(s, CreateRow(Len(s) + 1, row, at, clock))

\* ------------------------------------------------------------------- Init
\* The table as the process finds it: empty, or holding a row of an earlier run.
InitialStores ==
    {<<>>,
     <<CreateRow(1, ParsedRow("Team A", "06/12 09:55", 1, DEFAULT_URLS[1], 0), 0, 0)>>}

IngestInit ==
    /\ store \in InitialStores
    /\ now = 1
    /\ isConnected = FALSE
    /\ csvFiles = {}
    /\ latestCsv = [u \in Urls |-> 0]
    /\ cycles = 0
    /\ url = [j \in Jobs |-> ""]
    /\ pos = [j \in Jobs |-> 0]
    /\ pc = [j \in Jobs |-> "idle"]
    /\ rowData = [j \in Jobs |-> <<>>]
    /\ scrapedAt = [j \in Jobs |-> 0]
    /\ parsed = [j \in Jobs |-> 0]
    /\ upsertedCount = [j \in Jobs |-> 0]
    /\ cycleResult = [j \in Jobs |-> "none"]
    /\ dbErrors = [j \in Jobs |-> 0]
    /\ attempted = [j \in Jobs |-> <<>>]
    /\ scrapeErrors = [j \in Jobs |-> <<>>]
    /\ jobResult = [j \in Jobs |-> "none"]

\* -------------------------------------------------------- time bucketing
MsPerMinute == 60 * 1000
MsPerHour == 60 * MsPerMinute
MsPerDay == 24 * MsPerHour

\* The % of JavaScript: the result has the sign of the dividend.
JsMod(a, b) == IF a >= 0 THEN a % b ELSE 0 - ((0 - a) % b)

\* Offset of local time from UTC in the host zone: at a UTC instant, or at a local
\* wall time (a repeated or skipped wall time takes the offset before the change).
LocalTZA(zone, t, isUTC) ==
    IF isUTC
    THEN IF t < zone.at THEN zone.before ELSE zone.after
    ELSE IF t < zone.at + (IF zone.before > zone.after THEN zone.before ELSE zone.after)
         THEN zone.before ELSE zone.after

LocalTime(zone, t) == t + LocalTZA(zone, t, TRUE)

UTC(zone, wall) == wall - LocalTZA(zone, wall, FALSE)

\* d.setMinutes(d.getMinutes() + delta / 60000), d.setDate(d.getDate() + delta / 86400000):
\* the local wall time is moved by delta and read back as an instant.
SetLocal(zone, t, delta) == UTC(zone, LocalTime(zone, t) + delta)

\* new Date(date + 'T00:00:00.000Z') for the date with day number d.
ParseDate(d) == d * MsPerDay

\* toISOString().split('T')[0], as the day number of the date.
IsoDate(t) == t \div MsPerDay

\* getUTCHours()
UTCHours(t) == (t % MsPerDay) \div MsPerHour

\* startOfDay of getTableAnalytics for the date d under offset tz.
StartOfDay(zone, d, tz) == SetLocal(zone, ParseDate(d), 0 - tz * 60 * MsPerMinute)

\* endOfDay of getTableAnalytics: 23:59:59.999 of the date, adjusted alike.
EndOfDay(zone, d, tz) ==
    SetLocal(zone, ParseDate(d) + MsPerDay - 1, 0 - tz * 60 * MsPerMinute)

\* sevenDaysAgo: a copy of startOfDay with setDate(getDate() - 7).
SevenDaysAgo(zone, start) == SetLocal(zone, start, 0 - 7 * MsPerDay)

\* Mutant: the hour is not moved into [0,24) before the modulo.
LocalHourNoWrap(t, tz) == JsMod(UTCHours(t) + tz, 24)

\* localHour of the window filters.
LocalHour(t, tz) == JsMod(UTCHours(t) + tz + 24, 24)

\* dateKey of calculateAnalytics: the date of the instant moved by the offset.
DateKey(t, tz) == IsoDate(t + tz * MsPerHour)

\* The six windows of both handlers.
windows ==
    <<[name |-> "00:00-04:00", start |-> 0, end |-> 4],
      [name |-> "04:00-08:00", start |-> 4, end |-> 8],
      [name |-> "08:00-12:00", start |-> 8, end |-> 12],
      [name |-> "12:00-16:00", start |-> 12, end |-> 16],
      [name |-> "16:00-20:00", start |-> 16, end |-> 20],
      [name |-> "20:00-24:00", start |-> 20, end |-> 24]>>

\* The windows whose filter `localHour >= start && localHour < end` keeps the hour.
WindowsOf(h) ==
    {windows[i].name : i \in {k \in 1..Len(windows) :
                                 h >= windows[k].start /\ h < windows[k].end}}

\* Zones the server may run in: UTC, and a zone whose clocks go back one hour
\* (summer time ends) at 01:00 UTC of day 8.
HostZones ==
    {[name |-> "UTC", before |-> 0, after |-> 0, at |-> 0],
     [name |-> "Europe/Dublin", before |-> MsPerHour, after |-> 0,
      at |-> 8 * MsPerDay + MsPerHour]}

\* The timezone values of the requests: the UTC offsets in use.
Offsets == (0 - 12)..14

\* The dates asked for: the day the host zone changes its offset, and a later day
\* whose trailing week holds the change.
TargetDates == {8, 10}

\* scrapedAt of the samples: the first and the last millisecond of every hour from
\* nine days before the earliest target date to the end of the day after the latest.
SampleInstants ==
    {d * MsPerDay + h * MsPerHour + e : d \in (0 - 1)..11, h \in 0..23,
                                       e \in {0, MsPerHour - 1}}

TimeIdle ==
    /\ hostZone = [name |-> "UTC", before |-> 0, after |-> 0, at |-> 0]
    /\ timezoneOffset = 0
    /\ targetDate = 0
    /\ sampleAt = 0
    /\ tpc = "none"
    /\ startOfDay = 0
    /\ endOfDay = 0
    /\ sevenDaysAgo = 0
    /\ inToday = FALSE
    /\ inHistorical = FALSE
    /\ localHour = 0
    /\ windowsHit = {}
    /\ dateKey = 0

TimeInit ==
    /\ hostZone \in HostZones
    /\ timezoneOffset \in Offsets
    /\ targetDate \in TargetDates
    /\ sampleAt \in SampleInstants
    /\ tpc = "request"
    /\ startOfDay = 0
    /\ endOfDay = 0
    /\ sevenDaysAgo = 0
    /\ inToday = FALSE
    /\ inHistorical = FALSE
    /\ localHour = 0
    /\ windowsHit = {}
    /\ dateKey = 0

\* getTableAnalytics with sourceUrl, date and timezone given: the two range reads
\* and the window filters, as they treat one stored sample.
getTableAnalytics ==
    /\ tpc = "request"
    /\ tpc' = "table"
    /\ UNCHANGED <<ingestVars, readVars>>
    /\ startOfDay' = StartOfDay(hostZone, targetDate, timezoneOffset)
    /\ endOfDay' = EndOfDay(hostZone, targetDate, timezoneOffset)
    /\ sevenDaysAgo' = SevenDaysAgo(hostZone, startOfDay')
    /\ inToday' = (sampleAt >= startOfDay' /\ sampleAt <= endOfDay')
    /\ inHistorical' = (sampleAt >= sevenDaysAgo' /\ sampleAt < startOfDay')
    /\ localHour' = LocalHour(sampleAt, timezoneOffset)
    /\ windowsHit' = WindowsOf(localHour')
    /\ UNCHANGED <<hostZone, timezoneOffset, targetDate, sampleAt, dateKey>>

\* calculateAnalytics as called by getTeamAnalytics: the grouping by local date and
\* the window filters, as they treat one sample.
calculateAnalytics ==
    /\ tpc = "request"
    /\ tpc' = "team"
    /\ UNCHANGED <<ingestVars, readVars>>
    /\ dateKey' = DateKey(sampleAt, timezoneOffset)
    /\ localHour' = LocalHour(sampleAt, timezoneOffset)
    /\ windowsHit' = WindowsOf(localHour')
    /\ UNCHANGED <<hostZone, timezoneOffset, targetDate, sampleAt, startOfDay, endOfDay,
                   sevenDaysAgo, inToday, inHistorical>>

TimeNext == getTableAnalytics \/ calculateAnalytics

\* No read request is being served.
ReadIdle ==
    /\ rpc = "none"
    /\ req = [path |-> "none", name |-> ""]
    /\ reqSourceUrl = ""
    /\ queries = <<>>
    /\ todayData = {}
    /\ historicalData = {}
    /\ teamNames = <<>>
    /\ tableData = <<>>
    /\ computed = <<>>
    /\ response = [status |-> 0]

Init == IngestInit /\ serialized = FALSE /\ TimeIdle /\ ReadIdle

SerialInit == IngestInit /\ serialized = TRUE /\ TimeIdle /\ ReadIdle

\* ---------------------------------------------------------------- actions
\* The sources one scrapeAndSaveData call works through.
SourcesOf(j) == IF url[j] = "" THEN DEFAULT_URLS ELSE <<url[j]>>

CurrentUrl(j) == SourcesOf(j)[pos[j]]

\* The catch of the loop over DEFAULT_URLS: the source whose scrapeSingleUrl threw
\* is logged before the loop goes on (p is the position the job moves to).
LogScrapeError(j, p) ==
    IF p = 1 THEN <<>>
    ELSE IF cycleResult[j] = "threw" THEN Append(scrapeErrors[j], CurrentUrl(j))
    ELSE scrapeErrors[j]

\* scrapeSingleUrl(u) is entered: the cycle's locals are fresh and axios.get is issued.
StartCycle(j, u, p) ==
    /\ cycles < MaxCycles
    /\ cycles' = cycles + 1
    /\ pos' = [pos EXCEPT ![j] = p]
    /\ pc' = [pc EXCEPT ![j] = "fetch"]
    /\ rowData' = [rowData EXCEPT ![j] = <<>>]
    /\ scrapedAt' = [scrapedAt EXCEPT ![j] = 0]
    /\ parsed' = [parsed EXCEPT ![j] = 0]
    /\ upsertedCount' = [upsertedCount EXCEPT ![j] = 0]
    /\ cycleResult' = [cycleResult EXCEPT ![j] = "running"]
    /\ dbErrors' = [dbErrors EXCEPT ![j] = 0]
    /\ attempted' = [attempted EXCEPT ![j] = IF p = 1 THEN <<u>> ELSE Append(@, u)]
    /\ scrapeErrors' = [scrapeErrors EXCEPT ![j] = LogScrapeError(j, p)]

\* scrapeSingleUrl ends: it returns, or rethrows from its outer catch; the rows it
\* parsed stay on record until its caller moves on.
EndCycle(j, how) ==
    /\ cycleResult' = [cycleResult EXCEPT ![j] = how]
    /\ pc' = [pc EXCEPT ![j] = "cycleEnd"]
    /\ UNCHANGED rowData

\* Jobs whose scrapeAndSaveData call has not ended.
InFlight == {j \in Jobs : pc[j] \notin {"idle", "done"}}

\* scrapeAndSaveData(url?) is called: the call takes the first free slot.
scrapeAndSaveData(j, u) ==
    /\ j \notin InFlight
    /\ \A k \in Jobs : k < j => k \in InFlight
    /\ UNCHANGED <<serialized, timeVars, readVars>>
    /\ url' = [url EXCEPT ![j] = u]
    /\ jobResult' = [jobResult EXCEPT ![j] = "running"]
    /\ StartCycle(j, IF u = "" THEN DEFAULT_URLS[1] ELSE u, 1)
    /\ UNCHANGED <<store, now, isConnected, csvFiles, latestCsv>>

\* The callers of scrapeAndSaveData: timer ticks and requests arrive freely, or
\* one at a time when the scheduler serializes them.
MayCall == ~serialized \/ InFlight = {}

\* The hourly cron job: scrapeAndSaveData().
CronJob(j) == MayCall /\ scrapeAndSaveData(j, "")

\* The initial scrape of the app.listen callback: scrapeAndSaveData().
StartupScrape(j) == MayCall /\ scrapeAndSaveData(j, "")

\* GET /scrape-now: scrapeAndSaveData().
ScrapeNow(j) == MayCall /\ scrapeAndSaveData(j, "")

\* GET /scrape-url?url=u: scrapeAndSaveData(u).
ScrapeUrl(j, u) == MayCall /\ scrapeAndSaveData(j, u)

\* axios.get rejects: the outer catch logs and rethrows.
FetchFail(j) ==
    /\ pc[j] = "fetch"
    /\ UNCHANGED <<serialized, timeVars, readVars>>
    /\ EndCycle(j, "threw")
    /\ UNCHANGED <<store, now, isConnected, csvFiles, latestCsv, cycles, url, pos,
                   scrapedAt, parsed, upsertedCount, dbErrors, attempted, scrapeErrors,
                   jobResult>>

\* Mutant: no early return for a page without rows.
FetchOkNoEarlyReturn(j, page, at) ==
    /\ pc[j] = "fetch"
    /\ UNCHANGED <<serialized, timeVars, readVars>>
    /\ at \in {now, now + 1}
    /\ at \in Instants
    /\ now' = at
    /\ scrapedAt' = [scrapedAt EXCEPT ![j] = at]
    /\ parsed' = [parsed EXCEPT ![j] = Len(page)]
    /\ pc' = [pc EXCEPT ![j] = "csv"]
    /\ rowData' = [rowData EXCEPT ![j] = ParsePage(page, CurrentUrl(j), at)]
    /\ UNCHANGED cycleResult
    /\ UNCHANGED <<store, isConnected, csvFiles, latestCsv, cycles, url, pos,
                   upsertedCount, dbErrors, attempted, scrapeErrors, jobResult>>

\* axios.get resolves: the page is parsed at the scrape instant; no rows is a
\* warning and a plain return, otherwise csvWriter.writeRecords is awaited.
FetchOk(j, page, at) ==
    /\ pc[j] = "fetch"
    /\ UNCHANGED <<serialized, timeVars, readVars>>
    /\ at \in {now, now + 1}
    /\ at \in Instants
    /\ now' = at
    /\ scrapedAt' = [scrapedAt EXCEPT ![j] = at]
    /\ parsed' = [parsed EXCEPT ![j] = Len(page)]
    /\ IF Len(page) = 0
       THEN EndCycle(j, "returned")
       ELSE /\ pc' = [pc EXCEPT ![j] = "csv"]
            /\ rowData' = [rowData EXCEPT ![j] = ParsePage(page, CurrentUrl(j), at)]
            /\ UNCHANGED cycleResult
    /\ UNCHANGED <<store, isConnected, csvFiles, latestCsv, cycles, url, pos,
                   upsertedCount, dbErrors, attempted, scrapeErrors, jobResult>>

\* writeRecords resolves and copyFileSync succeeds; then ensureConnection is called
\* at the head of the store block: it connects only while isConnected is false.
CsvWriteOk(j) ==
    /\ pc[j] = "csv"
    /\ UNCHANGED <<serialized, timeVars, readVars>>
    /\ csvFiles' = csvFiles \cup {<<CurrentUrl(j), scrapedAt[j]>>}
    /\ latestCsv' = [latestCsv EXCEPT ![CurrentUrl(j)] = scrapedAt[j]]
    /\ pc' = [pc EXCEPT ![j] = IF isConnected THEN "upsert" ELSE "connect"]
    /\ UNCHANGED <<store, now, isConnected, cycles, url, pos, rowData, scrapedAt,
                   parsed, upsertedCount, cycleResult, dbErrors, attempted, scrapeErrors,
                   jobResult>>

\* writeRecords rejects (no file), or copyFileSync throws (timestamped file only):
\* the outer catch rethrows.
CsvWriteFail(j, written) ==
    /\ pc[j] = "csv"
    /\ UNCHANGED <<serialized, timeVars, readVars>>
    /\ csvFiles' = IF written THEN csvFiles \cup {<<CurrentUrl(j), scrapedAt[j]>>}
                   ELSE csvFiles
    /\ EndCycle(j, "threw")
    /\ UNCHANGED <<store, now, isConnected, latestCsv, cycles, url, pos, scrapedAt,
                   parsed, upsertedCount, dbErrors, attempted, scrapeErrors, jobResult>>

\* Mutant: the inner catch logs and rethrows.
CatchDbErrorRethrow(j) ==
    /\ dbErrors' = [dbErrors EXCEPT ![j] = @ + 1]
    /\ EndCycle(j, "threw")

\* The inner catch: one 'Error saving to database' line, nothing rethrown.
CatchDbError(j) ==
    /\ dbErrors' = [dbErrors EXCEPT ![j] = @ + 1]
    /\ EndCycle(j, "returned")

\* prisma.$connect resolves inside ensureConnection.
ConnectOk(j) ==
    /\ pc[j] = "connect"
    /\ UNCHANGED <<serialized, timeVars, readVars>>
    /\ isConnected' = TRUE
    /\ pc' = [pc EXCEPT ![j] = "upsert"]
    /\ UNCHANGED <<store, now, csvFiles, latestCsv, cycles, url, pos, rowData,
                   scrapedAt, parsed, upsertedCount, cycleResult, dbErrors, attempted,
                   scrapeErrors, jobResult>>

\* prisma.$connect rejects: ensureConnection rethrows into the inner catch.
ConnectFail(j) ==
    /\ pc[j] = "connect"
    /\ UNCHANGED <<serialized, timeVars, readVars>>
    /\ isConnected' = FALSE
    /\ CatchDbError(j)
    /\ UNCHANGED <<store, now, csvFiles, latestCsv, cycles, url, pos, scrapedAt,
                   parsed, upsertedCount, attempted, scrapeErrors, jobResult>>

\* The row the for loop over rowData is at.
CurrentRow(j) == rowData[j][upsertedCount[j] + 1]

\* One iteration of `for (const row of rowData)`: the upsert resolves.
UpsertOk(j) ==
    /\ pc[j] = "upsert"
    /\ UNCHANGED <<serialized, timeVars, readVars>>
    /\ store' = Upsert(store, CurrentRow(j), scrapedAt[j], now)
    /\ upsertedCount' = [upsertedCount EXCEPT ![j] = @ + 1]
    /\ IF upsertedCount[j] + 1 = Len(rowData[j])
       THEN EndCycle(j, "returned")
       ELSE UNCHANGED <<pc, cycleResult, rowData>>
    /\ UNCHANGED <<now, isConnected, csvFiles, latestCsv, cycles, url, pos, scrapedAt,
                   parsed, dbErrors, attempted, scrapeErrors, jobResult>>

\* The upsert rejects: the loop is left for the inner catch.
UpsertFail(j) ==
    /\ pc[j] = "upsert"
    /\ UNCHANGED <<serialized, timeVars, readVars>>
    /\ CatchDbError(j)
    /\ UNCHANGED <<store, now, isConnected, csvFiles, latestCsv, cycles, url, pos,
                   scrapedAt, parsed, upsertedCount, attempted, scrapeErrors, jobResult>>

\* scrapeAndSaveData ends: it returns, or the call's promise rejects; the locals of
\* its last scrapeSingleUrl are gone.
EndJob(j, how) ==
    /\ pc' = [pc EXCEPT ![j] = "done"]
    /\ jobResult' = [jobResult EXCEPT ![j] = how]
    /\ rowData' = [rowData EXCEPT ![j] = <<>>]
    /\ pos' = [pos EXCEPT ![j] = 0]
    /\ scrapedAt' = [scrapedAt EXCEPT ![j] = 0]
    /\ parsed' = [parsed EXCEPT ![j] = 0]
    /\ upsertedCount' = [upsertedCount EXCEPT ![j] = 0]
    /\ cycleResult' = [cycleResult EXCEPT ![j] = "none"]
    /\ dbErrors' = [dbErrors EXCEPT ![j] = 0]

\* Mutant: no try around scrapeSingleUrl in the loop, a throw ends the call.
NextDefaultUrlAbort(j) ==
    /\ pc[j] = "cycleEnd"
    /\ UNCHANGED <<serialized, timeVars, readVars>>
    /\ url[j] = ""
    /\ IF pos[j] < Len(DEFAULT_URLS) /\ cycleResult[j] # "threw"
       THEN /\ StartCycle(j, DEFAULT_URLS[pos[j] + 1], pos[j] + 1)
            /\ UNCHANGED jobResult
       ELSE /\ EndJob(j, cycleResult[j])
            /\ UNCHANGED <<cycles, attempted, scrapeErrors>>
    /\ UNCHANGED <<store, now, isConnected, csvFiles, latestCsv, url>>

\* scrapeAndSaveData without a url: the for loop over DEFAULT_URLS catches what
\* scrapeSingleUrl throws and goes on to the next source.
NextDefaultUrl(j) ==
    /\ pc[j] = "cycleEnd"
    /\ UNCHANGED <<serialized, timeVars, readVars>>
    /\ url[j] = ""
    /\ IF pos[j] < Len(DEFAULT_URLS)
       THEN /\ StartCycle(j, DEFAULT_URLS[pos[j] + 1], pos[j] + 1)
            /\ UNCHANGED jobResult
       ELSE /\ EndJob(j, "returned")
            /\ scrapeErrors' = [scrapeErrors EXCEPT ![j] = LogScrapeError(j, pos[j] + 1)]
            /\ UNCHANGED <<cycles, attempted>>
    /\ UNCHANGED <<store, now, isConnected, csvFiles, latestCsv, url>>

\* scrapeAndSaveData(url): `await scrapeSingleUrl(url)` outside any try.
SingleUrlDone(j) ==
    /\ pc[j] = "cycleEnd"
    /\ UNCHANGED <<serialized, timeVars, readVars>>
    /\ url[j] # ""
    /\ EndJob(j, cycleResult[j])
    /\ UNCHANGED <<store, now, isConnected, csvFiles, latestCsv, cycles, url,
                   attempted, scrapeErrors>>

Next ==
    \E j \in Jobs :
        \/ CronJob(j)
        \/ StartupScrape(j)
        \/ ScrapeNow(j)
        \/ \E u \in Urls : ScrapeUrl(j, u)
        \/ FetchFail(j)
        \/ \E page \in Pages, at \in Instants : FetchOk(j, page, at)
        \/ CsvWriteOk(j)
        \/ \E written \in BOOLEAN : CsvWriteFail(j, written)
        \/ ConnectOk(j)
        \/ ConnectFail(j)
        \/ UpsertOk(j)
        \/ UpsertFail(j)
        \/ NextDefaultUrl(j)
        \/ SingleUrlDone(j)

\* The pages fetched while calls overlap: no row, one row, and the rows of two
\* teams.
RacePages ==
    {<<>>,
     <<<<"Team A", "06/12 09:55", 1>>>>,
     <<<<"Team A", "06/12 09:55", 1>>, <<"Team B", "06/12 09:55", 2>>>>}

RaceNext ==
    \E j \in Jobs :
        \/ CronJob(j)
        \/ StartupScrape(j)
        \/ ScrapeNow(j)
        \/ \E u \in Urls : ScrapeUrl(j, u)
        \/ FetchFail(j)
        \/ \E page \in RacePages, at \in Instants : FetchOk(j, page, at)
        \/ CsvWriteOk(j)
        \/ \E written \in BOOLEAN : CsvWriteFail(j, written)
        \/ ConnectOk(j)
        \/ ConnectFail(j)
        \/ UpsertOk(j)
        \/ UpsertFail(j)
        \/ NextDefaultUrl(j)
        \/ SingleUrlDone(j)

\* Any interleaving of the calls the server makes.
Spec == Init /\ [][RaceNext]_vars

\* The pages that list a team once at most.
DistinctPages ==
    {page \in Pages :
        \A i, k \in 1..Len(page) : i # k => page[i][1] # page[k][1]}

\* axios.get resolves for the n-th cycle at instant n: no two cycles share their
\* scrape instant.
FetchDistinct(j, page) == FetchOk(j, page, cycles)

DistinctNext ==
    \E j \in Jobs :
        \/ CronJob(j)
        \/ StartupScrape(j)
        \/ ScrapeNow(j)
        \/ \E u \in Urls : ScrapeUrl(j, u)
        \/ FetchFail(j)
        \/ \E page \in DistinctPages : FetchDistinct(j, page)
        \/ CsvWriteOk(j)
        \/ \E written \in BOOLEAN : CsvWriteFail(j, written)
        \/ ConnectOk(j)
        \/ ConnectFail(j)
        \/ UpsertOk(j)
        \/ UpsertFail(j)
        \/ NextDefaultUrl(j)
        \/ SingleUrlDone(j)

\* Serialized calls whose pages list a team once and whose cycles have distinct
\* scrape instants.
SpecDistinct == SerialInit /\ [][DistinctNext]_vars

\* The calls serialized by the scheduler: at most one in flight.
SpecSerial == SerialInit /\ [][Next]_vars

\* The analytics handlers over every request and sample, the table left alone.
IngestIdle ==
    /\ store = <<>>
    /\ now = 1
    /\ isConnected = TRUE
    /\ csvFiles = {}
    /\ latestCsv = [u \in Urls |-> 0]
    /\ cycles = 0
    /\ url = [j \in Jobs |-> ""]
    /\ pos = [j \in Jobs |-> 0]
    /\ pc = [j \in Jobs |-> "idle"]
    /\ rowData = [j \in Jobs |-> <<>>]
    /\ scrapedAt = [j \in Jobs |-> 0]
    /\ parsed = [j \in Jobs |-> 0]
    /\ upsertedCount = [j \in Jobs |-> 0]
    /\ cycleResult = [j \in Jobs |-> "none"]
    /\ dbErrors = [j \in Jobs |-> 0]
    /\ attempted = [j \in Jobs |-> <<>>]
    /\ scrapeErrors = [j \in Jobs |-> <<>>]
    /\ jobResult = [j \in Jobs |-> "none"]
    /\ serialized = TRUE

TimeSpecInit == IngestIdle /\ TimeInit /\ ReadIdle

SpecTime == TimeSpecInit /\ [][TimeNext]_vars

\* ----------------------------------------------------------- read handlers
\* Numbers as the handlers hold them: null, a finite number (speeds and their
\* differences in hundredths of a knot, percentages in tenths of a percent), NaN
\* or an infinity.
Null == [kind |-> "null", val |-> 0]

Num(n) == [kind |-> "number", val |-> n]

NaN == [kind |-> "NaN", val |-> 0]

Infinite(sign) == [kind |-> "Infinity", val |-> sign]

\* parseFloat of a speed cell, in hundredths of a knot.
parseFloat(text) ==
    CASE text = "3.0 knots" -> Num(300)
      [] text = "4.0 knots" -> Num(400)
      [] text = "3.45 knots" -> Num(345)
      [] text = "3.21 knots" -> Num(321)
      [] text = "0.0 knots" -> Num(0)
      [] OTHER -> NaN

\* parseFloat(d.speed) || 0
SpeedOf(d) ==
    IF parseFloat(d.speed).kind = "number" /\ parseFloat(d.speed).val # 0
    THEN parseFloat(d.speed).val
    ELSE 0

RECURSIVE SumSpeeds(_)
\* speeds.reduce((a, b) => a + b, 0)
SumSpeeds(rows) ==
    IF rows = {} THEN 0
    ELSE LET d == CHOOSE x \in rows : TRUE
         IN  SpeedOf(d) + SumSpeeds(rows \ {d})

\* parseFloat((num / den).toFixed(digits)) in units of the last digit kept, den > 0:
\* the nearest integer to num / den. When the quotient lies halfway, the double
\* that stands for it is the halfway point or a neighbour of it, and toFixed goes
\* up (tie = 1) or down (tie = 0) in magnitude accordingly.
toFixed(num, den, tie) ==
    LET a == IF num < 0 THEN 0 - num ELSE num
        q == a \div den
        r == a % den
        n == IF 2 * r < den THEN q ELSE IF 2 * r > den THEN q + 1 ELSE q + tie
    IN  IF num < 0 THEN 0 - n ELSE n

\* Mutant: the average is rounded to 1 decimal.
AvgSpeedOneDecimal(rows, tie) == 10 * toFixed(SumSpeeds(rows), 10 * Cardinality(rows), tie)

\* The average of a non-empty group of rows, rounded to 2 decimals.
AvgSpeed(rows, tie) == toFixed(SumSpeeds(rows), Cardinality(rows), tie)

\* The filter of one window over a group of rows.
WindowRows(rows, w, tz) ==
    {d \in rows : /\ LocalHour(d.scrapedAt, tz) >= w.start
                  /\ LocalHour(d.scrapedAt, tz) < w.end}

\* Mutant: the quotient is not multiplied by 100.
PercentChangeFraction(diff, base, tie) ==
    IF base = 0
    THEN IF diff = 0 THEN NaN ELSE Infinite(IF diff < 0 THEN 0 - 1 ELSE 1)
    ELSE Num(toFixed(10 * diff, base, tie))

\* (diff / sevenDayAvg) * 100 rounded to 1 decimal; a zero divisor gives NaN or
\* an infinity, which toFixed and parseFloat hand through.
PercentChange(diff, base, tie) ==
    IF base = 0
    THEN IF diff = 0 THEN NaN ELSE Infinite(IF diff < 0 THEN 0 - 1 ELSE 1)
    ELSE IF base > 0 THEN Num(toFixed(1000 * diff, base, tie))
         ELSE Num(toFixed(0 - 1000 * diff, 0 - base, tie))

\* The entry of one window in one team's row of the table.
WindowEntry(teamData, sevenDayData, w, tz, tie) ==
    LET windowData == WindowRows(teamData, w, tz)
        historicalWindowData == WindowRows(sevenDayData, w, tz)
        currentSpeed == IF windowData # {} THEN Num(AvgSpeed(windowData, tie)) ELSE Null
        sevenDayAvg == IF historicalWindowData # {}
                       THEN Num(AvgSpeed(historicalWindowData, tie)) ELSE Null
        both == currentSpeed # Null /\ sevenDayAvg # Null
        diff == IF both THEN Num(currentSpeed.val - sevenDayAvg.val) ELSE Null
    IN  [window |-> w.name,
         current |-> currentSpeed,
         sevenDayAvg |-> sevenDayAvg,
         diff |-> diff,
         percentChange |-> IF both THEN PercentChange(diff.val, sevenDayAvg.val, tie)
                           ELSE Null]

\* The callback of teamNames.map: one team's row, computed from the two result sets.
TeamEntry(teamName, today, historical, tz, tie) ==
    LET teamData == {d \in today : d.name = teamName}
        sevenDayData == {d \in historical : d.name = teamName}
    IN  [teamName |-> teamName,
         dailyAverage |-> IF teamData # {} THEN Num(AvgSpeed(teamData, tie)) ELSE Null,
         sevenDayAverage |-> IF sevenDayData # {}
                             THEN Num(AvgSpeed(sevenDayData, tie)) ELSE Null,
         dataPoints |-> Cardinality(teamData),
         historicalDataPoints |-> Cardinality(sevenDayData),
         timeWindowData |-> [i \in 1..Len(windows) |->
                                WindowEntry(teamData, sevenDayData, windows[i], tz, tie)]]

\* Mutant: the body carries the number as the handler holds it.
JsonNumberRaw(x) == x

\* JSON.stringify of a number: NaN and the infinities are written as null.
JsonNumber(x) == IF x.kind \in {"NaN", "Infinity"} THEN Null ELSE x

JsonWindowEntry(e) ==
    [e EXCEPT !.current = JsonNumber(@), !.sevenDayAvg = JsonNumber(@),
              !.diff = JsonNumber(@), !.percentChange = JsonNumber(@)]

JsonTeamEntry(e) ==
    [e EXCEPT !.dailyAverage = JsonNumber(@), !.sevenDayAverage = JsonNumber(@),
              !.timeWindowData = [i \in DOMAIN @ |-> JsonWindowEntry(@[i])]]

\* The team names of the model in the order of Array.prototype.sort (code units).
NameOrder == <<"Team A", "Team B", "Team C", "Team D">>

\* Position of a team name in the order of the code units.
NameRank(n) == CHOOSE i \in 1..Len(NameOrder) : NameOrder[i] = n

\* Mutant: the names in descending order.
SortNamesDescending(names) ==
    SelectSeq([i \in 1..Len(NameOrder) |-> NameOrder[Len(NameOrder) + 1 - i]],
              LAMBDA n : n \in names)

\* Array.from(new Set(names)).sort()
SortNames(names) == SelectSeq(NameOrder, LAMBDA n : n \in names)

\* ------------------------------------------------------ the table as read
\* The date the table requests ask for.
TableDate == 10

\* scrapedAt of the samples the analytics requests meet: two in the first hour after
\* midnight of the date and one four hours later, one the day before and one three
\* days before.
TableInstants ==
    <<TableDate * MsPerDay + MsPerHour,
      TableDate * MsPerDay + MsPerHour + 30 * MsPerMinute,
      TableDate * MsPerDay + 5 * MsPerHour,
      (TableDate - 1) * MsPerDay + 5 * MsPerHour,
      (TableDate - 3) * MsPerDay + MsPerHour>>

\* The Last Update cell the page showed at each of these scrapes.
TableLabels == <<"10/01 00:55", "10/01 01:25", "10/01 04:55", "09/01 04:55", "07/01 00:55">>

\* The Speed cells of a team, one per instant: two courses of a week.
SpeedTables ==
    <<<<"3.0 knots", "4.0 knots", "3.45 knots", "3.21 knots", "0.0 knots">>,
      <<"3.45 knots", "3.0 knots", "N/A", "4.0 knots", "3.21 knots">>>>

\* One stored row: the row the scraper creates from a page row with this speed.
SampleRow(id, n, label, speed, source, at) ==
    CreateRow(id, [ParsedRow(n, label, 1, source, at) EXCEPT !.speed = speed], at, at)

\* Team (1, 2) and instant of every sample a table may hold, in creation order.
TableSlots ==
    <<<<1, 5>>, <<2, 5>>, <<1, 4>>, <<2, 4>>, <<1, 1>>, <<2, 1>>, <<1, 2>>, <<1, 3>>>>

\* The table holding the samples of the chosen slots, team 1 on speed course k and
\* team 2 on the other, and perhaps a row of another source.
TableStore(slots, k, other) ==
    LET kept == SelectSeq(TableSlots, LAMBDA sl : sl \in slots)
        rows == [i \in 1..Len(kept) |->
                    SampleRow(i, NameOrder[kept[i][1]], TableLabels[kept[i][2]],
                              SpeedTables[IF kept[i][1] = 1 THEN k ELSE 3 - k][kept[i][2]],
                              DEFAULT_URLS[1], TableInstants[kept[i][2]])]
    IN  IF other
        THEN Append(rows, SampleRow(Len(kept) + 1, NameOrder[3], TableLabels[1],
                                    "4.0 knots", DEFAULT_URLS[2], TableInstants[1]))
        ELSE rows

TableStores ==
    {TableStore(slots, k, other) :
        slots \in SUBSET {TableSlots[i] : i \in 1..Len(TableSlots)},
        k \in 1..2, other \in BOOLEAN}

\* The timezone values of the analytics requests over the table.
TableOffsets == {0, 0 - 5}

\* Rows of the store as a set.
Rows(st) == {st[i] : i \in 1..Len(st)}

\* prisma.rowingData.findMany({ where: { sourceUrl, scrapedAt: {gte, lte, lt} } })
FindMany(st, q) ==
    {d \in Rows(st) : /\ d.sourceUrl = q.sourceUrl
                      /\ d.scrapedAt >= q.gte
                      /\ (q.op = "lte" => d.scrapedAt <= q.to)
                      /\ (q.op = "lt" => d.scrapedAt < q.to)}

\* getTableAnalytics up to the end of Promise.all: the ranges, the two findMany
\* and the team names of both result sets.
tableRead ==
    /\ rpc = "request"
    /\ req.path = "table"
    /\ IF reqSourceUrl = ""
       THEN /\ rpc' = "tableRejected"
            /\ queries' = <<>>
            /\ response' = [status |-> 400, success |-> FALSE]
            /\ UNCHANGED <<startOfDay, endOfDay, sevenDaysAgo, todayData,
                           historicalData, teamNames, tableData>>
       ELSE /\ startOfDay' = StartOfDay(hostZone, targetDate, timezoneOffset)
            /\ endOfDay' = EndOfDay(hostZone, targetDate, timezoneOffset)
            /\ sevenDaysAgo' = SevenDaysAgo(hostZone, startOfDay')
            /\ queries' = <<[sourceUrl |-> reqSourceUrl, gte |-> startOfDay',
                             op |-> "lte", to |-> endOfDay'],
                            [sourceUrl |-> reqSourceUrl, gte |-> sevenDaysAgo',
                             op |-> "lt", to |-> startOfDay']>>
            /\ todayData' = FindMany(store, queries'[1])
            /\ historicalData' = FindMany(store, queries'[2])
            /\ teamNames' = SortNames({d.name : d \in todayData'} \cup
                                      {d.name : d \in historicalData'})
            /\ tableData' = <<>>
            /\ rpc' = "tableTeams"
            /\ UNCHANGED response
    /\ UNCHANGED <<ingestVars, hostZone, timezoneOffset, targetDate, sampleAt, tpc,
                   inToday, inHistorical, localHour, windowsHit, dateKey,
                   req, reqSourceUrl, computed>>

\* Mutant: the callback reads the team's two ranges from the store itself.
tableTeamQuerying(tie) ==
    /\ rpc = "tableTeams"
    /\ Len(tableData) < Len(teamNames)
    /\ queries' = queries \o <<[queries[1] EXCEPT !.sourceUrl = reqSourceUrl],
                                [queries[2] EXCEPT !.sourceUrl = reqSourceUrl]>>
    /\ tableData' = Append(tableData,
                           TeamEntry(teamNames[Len(tableData) + 1],
                                     FindMany(store, queries[1]),
                                     FindMany(store, queries[2]), timezoneOffset, tie))
    /\ UNCHANGED <<ingestVars, timeVars, rpc, req, reqSourceUrl, todayData,
                   historicalData, teamNames, computed, response>>

\* One call of the teamNames.map callback: the next team's row, in memory.
tableTeam(tie) ==
    /\ rpc = "tableTeams"
    /\ Len(tableData) < Len(teamNames)
    /\ tableData' = Append(tableData,
                           TeamEntry(teamNames[Len(tableData) + 1], todayData,
                                     historicalData, timezoneOffset, tie))
    /\ UNCHANGED <<ingestVars, timeVars, rpc, req, reqSourceUrl, queries, todayData,
                   historicalData, teamNames, computed, response>>

\* res.json of the table.
tableRespond ==
    /\ rpc = "tableTeams"
    /\ Len(tableData) = Len(teamNames)
    /\ computed' = tableData
    /\ response' = [status |-> 200, success |-> TRUE, date |-> targetDate,
                    sourceUrl |-> reqSourceUrl, count |-> Len(tableData),
                    data |-> [i \in 1..Len(tableData) |-> JsonTeamEntry(tableData[i])]]
    /\ rpc' = "tableDone"
    /\ UNCHANGED <<ingestVars, timeVars, req, reqSourceUrl, queries, todayData,
                   historicalData, teamNames, tableData>>

RECURSIVE SortDescending(_)
\* sort((a, b) => new Date(b).getTime() - new Date(a).getTime())
SortDescending(instants) ==
    IF instants = {} THEN <<>>
    ELSE LET m == CHOOSE x \in instants : \A y \in instants : x >= y
         IN  <<m>> \o SortDescending(instants \ {m})

RECURSIVE SortAscending(_)
\* Object.keys(dataByDate).sort() over YYYY-MM-DD keys: the days in ascending order.
SortAscending(days) ==
    IF days = {} THEN <<>>
    ELSE LET m == CHOOSE x \in days : \A y \in days : x <= y
         IN  <<m>> \o SortAscending(days \ {m})

\* Mutant: a window that kept no sample is listed with an average of 0.
TimeWindowsWithZeros(dayData, tz, tie) ==
    [i \in 1..Len(windows) |->
        [window |-> windows[i].name,
         startHour |-> windows[i].start,
         endHour |-> windows[i].end,
         avgSpeed |-> IF WindowRows(dayData, windows[i], tz) = {} THEN 0
                      ELSE AvgSpeed(WindowRows(dayData, windows[i], tz), tie),
         dataPoints |-> Cardinality(WindowRows(dayData, windows[i], tz))]]

\* The timeWindows of one day: an entry for each window that kept a sample.
TimeWindowsOf(dayData, tz, tie) ==
    LET F[i \in 0..Len(windows)] ==
            IF i = 0 THEN <<>>
            ELSE IF WindowRows(dayData, windows[i], tz) = {} THEN F[i - 1]
            ELSE Append(F[i - 1],
                        [window |-> windows[i].name,
                         startHour |-> windows[i].start,
                         endHour |-> windows[i].end,
                         avgSpeed |-> AvgSpeed(WindowRows(dayData, windows[i], tz), tie),
                         dataPoints |-> Cardinality(WindowRows(dayData, windows[i], tz))])
    IN  F[Len(windows)]

\* calculateAnalytics: the rows grouped by local date, and per date the average,
\* the count and the windows.
DailyStats(data, tz, tie) ==
    LET dates == SortAscending({DateKey(d.scrapedAt, tz) : d \in data})
    IN  [i \in 1..Len(dates) |->
            LET dayData == {d \in data : DateKey(d.scrapedAt, tz) = dates[i]}
            IN  [date |-> dates[i],
                 avgSpeed |-> AvgSpeed(dayData, tie),
                 dataPoints |-> Cardinality(dayData),
                 timeWindows |-> TimeWindowsOf(dayData, tz, tie)]]

\* The where clause of getTeamAnalytics; a date of 0 stands for an absent parameter.
TeamWhere(st, zone, n, source, startDate, endDate, tz) ==
    {d \in Rows(st) :
        /\ d.name = n
        /\ (source # "" => d.sourceUrl = source)
        /\ (startDate # 0 =>
               d.scrapedAt >= SetLocal(zone, ParseDate(startDate), 0 - tz * MsPerHour))
        /\ (endDate # 0 =>
               d.scrapedAt <= SetLocal(zone, ParseDate(endDate) + MsPerDay - 1,
                                       0 - tz * MsPerHour))}

\* getTeamAnalytics: 400 without a name, 404 without data, else the daily stats.
getTeamAnalytics(startDate, endDate, tie) ==
    /\ rpc = "request"
    /\ req.path = "team"
    /\ rpc' = "teamDone"
    /\ IF req.name = ""
       THEN /\ queries' = <<>>
            /\ computed' = <<>>
            /\ response' = [status |-> 400, success |-> FALSE]
       ELSE LET data == TeamWhere(store, hostZone, req.name, reqSourceUrl, startDate,
                                  endDate, timezoneOffset)
                first == CHOOSE d \in data : \A e \in data : d.scrapedAt <= e.scrapedAt
            IN  /\ queries' = <<[name |-> req.name, sourceUrl |-> reqSourceUrl,
                                 startDate |-> startDate, endDate |-> endDate]>>
                /\ computed' = IF data = {} THEN <<>>
                               ELSE DailyStats(data, timezoneOffset, tie)
                /\ response' = IF data = {}
                               THEN [status |-> 404, success |-> FALSE]
                               ELSE [status |-> 200, success |-> TRUE,
                                     data |-> [teamName |-> first.name,
                                               sourceUrl |-> first.sourceUrl,
                                               dailyStats |-> computed']]
    /\ UNCHANGED <<ingestVars, timeVars, req, reqSourceUrl, todayData, historicalData,
                   teamNames, tableData>>

\* Mutant: the rows are read before the sourceUrl is looked at.
getAvailableDatesReadFirst ==
    /\ rpc = "request"
    /\ req.path = "dates"
    /\ rpc' = "datesDone"
    /\ queries' = <<[sourceUrl |-> reqSourceUrl]>>
    /\ response' = IF reqSourceUrl = ""
                   THEN [status |-> 400, success |-> FALSE]
                   ELSE [status |-> 200, success |-> TRUE,
                         dates |-> SortDescending({DateKey(d.scrapedAt, timezoneOffset) :
                                      d \in {e \in Rows(store) :
                                                e.sourceUrl = reqSourceUrl}})]
    /\ UNCHANGED <<ingestVars, timeVars, req, reqSourceUrl, todayData, historicalData,
                   teamNames, tableData, computed>>

\* getAvailableDates: 400 without a sourceUrl, else the local dates of the source's
\* rows, latest first.
getAvailableDates ==
    /\ rpc = "request"
    /\ req.path = "dates"
    /\ rpc' = "datesDone"
    /\ IF reqSourceUrl = ""
       THEN /\ queries' = <<>>
            /\ response' = [status |-> 400, success |-> FALSE]
       ELSE /\ queries' = <<[sourceUrl |-> reqSourceUrl]>>
            /\ response' =
                  [status |-> 200, success |-> TRUE,
                   dates |-> SortDescending({DateKey(d.scrapedAt, timezoneOffset) :
                                d \in {e \in Rows(store) : e.sourceUrl = reqSourceUrl}})]
    /\ UNCHANGED <<ingestVars, timeVars, req, reqSourceUrl, todayData, historicalData,
                   teamNames, tableData, computed>>

\* The server at rest over a filled table: no scrape running, the store connected.
ServingFrom(stores) ==
    /\ store \in stores
    /\ now = 1
    /\ isConnected = TRUE
    /\ csvFiles = {}
    /\ latestCsv = [u \in Urls |-> 0]
    /\ cycles = 0
    /\ url = [j \in Jobs |-> ""]
    /\ pos = [j \in Jobs |-> 0]
    /\ pc = [j \in Jobs |-> "idle"]
    /\ rowData = [j \in Jobs |-> <<>>]
    /\ scrapedAt = [j \in Jobs |-> 0]
    /\ parsed = [j \in Jobs |-> 0]
    /\ upsertedCount = [j \in Jobs |-> 0]
    /\ cycleResult = [j \in Jobs |-> "none"]
    /\ dbErrors = [j \in Jobs |-> 0]
    /\ attempted = [j \in Jobs |-> <<>>]
    /\ scrapeErrors = [j \in Jobs |-> <<>>]
    /\ jobResult = [j \in Jobs |-> "none"]
    /\ serialized = TRUE

\* A read request arrives: its host zone, timezone, date, path, name and sourceUrl.
RequestInit(zones, offsets, date, requests) ==
    /\ hostZone \in zones
    /\ timezoneOffset \in offsets
    /\ targetDate = date
    /\ sampleAt = 0
    /\ tpc = "none"
    /\ startOfDay = 0
    /\ endOfDay = 0
    /\ sevenDaysAgo = 0
    /\ inToday = FALSE
    /\ inHistorical = FALSE
    /\ localHour = 0
    /\ windowsHit = {}
    /\ dateKey = 0
    /\ rpc = "request"
    /\ \E r \in requests : /\ req = [path |-> r.path, name |-> r.name]
                            /\ reqSourceUrl = r.sourceUrl
    /\ queries = <<>>
    /\ todayData = {}
    /\ historicalData = {}
    /\ teamNames = <<>>
    /\ tableData = <<>>
    /\ computed = <<>>
    /\ response = [status |-> 0]

\* -------------------------------------------------------------------- map
\* scrapedAt of three scrapes, one hour apart.
MapInstants == <<9 * MsPerDay, 9 * MsPerDay + MsPerHour, 9 * MsPerDay + 2 * MsPerHour>>

MapLabels == <<"09/01 00:00", "09/01 01:00", "09/01 02:00">>

\* The Speed cell of each boat at each scrape.
MapSpeeds ==
    <<<<"3.0 knots", "0.0 knots", "4.0 knots">>,
      <<"3.21 knots", "3.45 knots", "3.0 knots">>,
      <<"4.0 knots", "4.0 knots", "N/A">>,
      <<"3.0 knots", "3.0 knots", "3.0 knots">>>>

\* Boat and scrape of every sample a table may hold, in creation order.
MapSlots ==
    <<<<1, 1>>, <<2, 1>>, <<3, 1>>, <<4, 1>>, <<1, 2>>, <<2, 2>>, <<3, 2>>, <<4, 2>>,
      <<1, 3>>, <<2, 3>>, <<3, 3>>, <<4, 3>>>>

\* The table holding the samples of the chosen slots, a boat having one sample per
\* scrape at most, as a scrape stamps one instant on a page that lists a boat once;
\* the page rows of the fourth boat lack the longitude. Perhaps a row of another
\* source.
MapStore(slots, other) ==
    LET kept == SelectSeq(MapSlots, LAMBDA sl : sl \in slots)
        rows == [i \in 1..Len(kept) |->
                    CreateRow(i,
                              [ParsedRow(NameOrder[kept[i][1]], MapLabels[kept[i][2]],
                                         IF kept[i][1] = 4 THEN 2 ELSE 1,
                                         DEFAULT_URLS[1], MapInstants[kept[i][2]])
                                  EXCEPT !.speed = MapSpeeds[kept[i][1]][kept[i][2]]],
                              MapInstants[kept[i][2]], MapInstants[kept[i][2]])]
    IN  IF other
        THEN Append(rows, SampleRow(Len(kept) + 1, NameOrder[1], MapLabels[1],
                                    "4.0 knots", DEFAULT_URLS[2],
                                    MapInstants[1] + 30 * MsPerMinute))
        ELSE rows

MapStores ==
    {MapStore(slots, other) :
        slots \in SUBSET {MapSlots[i] : i \in 1..Len(MapSlots)}, other \in BOOLEAN}

\* SELECT ... WHERE "sourceUrl" = ${sourceUrl}
AllData(st, source) == {d \in Rows(st) : d.sourceUrl = source}

\* boatsByName.get(name): the boat's positions in the order of the read, latest first.
PositionsOf(allData, n) ==
    LET mine == {d \in allData : d.name = n}
        at == SortDescending({d.scrapedAt : d \in mine})
    IN  [i \in 1..Len(at) |-> CHOOSE d \in mine : d.scrapedAt = at[i]]

RECURSIVE BoatOrder(_, _)
\* The keys of boatsByName in insertion order: by the boat's first row in the read,
\* which is ordered by scrapedAt descending, then name.
BoatOrder(allData, names) ==
    IF names = {} THEN <<>>
    ELSE LET latest(n) == PositionsOf(allData, n)[1].scrapedAt
             first == CHOOSE n \in names :
                         \A m \in names :
                            \/ latest(n) > latest(m)
                            \/ latest(n) = latest(m) /\ NameRank(n) <= NameRank(m)
         IN  <<first>> \o BoatOrder(allData, names \ {first})

\* Math.max(1, Math.floor(totalBoats * 0.5))
MinBoatsThreshold(totalBoats) ==
    IF totalBoats \div 2 > 1 THEN totalBoats \div 2 ELSE 1

\* Mutant: only the boats with decimal coordinates are counted at the instant.
BoatsAtWithCoordinates(allData, t) ==
    {d.name : d \in {e \in allData : /\ e.scrapedAt = t
                                      /\ e.latitudeDecimal # ""
                                      /\ e.longitudeDecimal # ""}}

\* Names of the boats with a position at the instant.
BoatsAt(allData, t) == {d.name : d \in {e \in allData : e.scrapedAt = t}}

\* Mutant: the instants are left in ascending order.
MeaningfulTimestampsAscending(allData) ==
    SelectSeq(SortAscending({d.scrapedAt : d \in allData}),
              LAMBDA t : Cardinality(BoatsAt(allData, t))
                            >= MinBoatsThreshold(Cardinality({d.name : d \in allData})))

\* meaningfulTimestamps: the sorted instants with enough boats.
MeaningfulTimestamps(allData) ==
    SelectSeq(SortDescending({d.scrapedAt : d \in allData}),
              LAMBDA t : Cardinality(BoatsAt(allData, t))
                            >= MinBoatsThreshold(Cardinality({d.name : d \in allData})))

\* parseFloat of a decimal coordinate: NaN for the empty text.
parseCoordinate(text) ==
    IF text = "" THEN [kind |-> "NaN", text |-> text]
    ELSE [kind |-> "number", text |-> text]

\* Mutant: the comparison is made with the boat's sample at the next retained
\* instant.
BoatEntryVsRetained(allData, n, t, tie) ==
    LET positions == PositionsOf(allData, n)
        position == CHOOSE d \in allData : d.name = n /\ d.scrapedAt = t
        kept == MeaningfulTimestamps(allData)
        earlier == {i \in 1..Len(positions) :
                       /\ positions[i].scrapedAt < t
                       /\ \E k \in 1..Len(kept) : kept[k] = positions[i].scrapedAt}
        has == earlier # {}
        prev == SpeedOf(positions[CHOOSE i \in earlier : \A k \in earlier : i <= k])
    IN  [name |-> n,
         lat |-> parseCoordinate(position.latitudeDecimal),
         lng |-> parseCoordinate(position.longitudeDecimal),
         speed |-> SpeedOf(position),
         lastUpdate |-> position.lastUpdate,
         scrapedAt |-> position.scrapedAt,
         avgSpeed |-> SpeedOf(position),
         prevAvgSpeed |-> IF has THEN Num(prev) ELSE Null,
         speedDiff |-> IF has THEN Num(SpeedOf(position) - prev) ELSE Null,
         percentChange |-> IF ~has THEN Null
                           ELSE IF prev # 0
                                THEN Num(toFixed(1000 * (SpeedOf(position) - prev), prev, tie))
                                ELSE Num(0)]

\* The entry of a boat in the frame of an instant at which it has a position.
BoatEntry(allData, n, t, tie) ==
    LET positions == PositionsOf(allData, n)
        currentIndex == CHOOSE i \in 1..Len(positions) :
                            /\ positions[i].scrapedAt = t
                            /\ \A k \in 1..(i - 1) : positions[k].scrapedAt # t
        position == positions[currentIndex]
        has == currentIndex < Len(positions)
        prev == SpeedOf(positions[currentIndex + 1])
    IN  [name |-> n,
         lat |-> parseCoordinate(position.latitudeDecimal),
         lng |-> parseCoordinate(position.longitudeDecimal),
         speed |-> SpeedOf(position),
         lastUpdate |-> position.lastUpdate,
         scrapedAt |-> position.scrapedAt,
         avgSpeed |-> SpeedOf(position),
         prevAvgSpeed |-> IF has THEN Num(prev) ELSE Null,
         speedDiff |-> IF has THEN Num(SpeedOf(position) - prev) ELSE Null,
         percentChange |-> IF ~has THEN Null
                           ELSE IF prev # 0
                                THEN Num(toFixed(1000 * (SpeedOf(position) - prev), prev, tie))
                                ELSE Num(0)]

\* One element of dataByTimestamp: the boats with a position at the instant, those
\* without a decimal latitude or longitude dropped.
Frame(allData, t, tie) ==
    LET order == BoatOrder(allData, {d.name : d \in allData})
        present == SelectSeq(order, LAMBDA n : n \in BoatsAt(allData, t))
        boats == [i \in 1..Len(present) |-> BoatEntry(allData, present[i], t, tie)]
    IN  [timestamp |-> t,
         boats |-> SelectSeq(boats, LAMBDA b : b.lat.kind # "NaN" /\ b.lng.kind # "NaN")]

\* getMapData: 400 without a sourceUrl, else the retained instants and their frames.
getMapData(tie) ==
    /\ rpc = "request"
    /\ req.path = "map"
    /\ rpc' = "mapDone"
    /\ IF reqSourceUrl = ""
       THEN /\ queries' = <<>>
            /\ response' = [status |-> 400, success |-> FALSE]
       ELSE LET allData == AllData(store, reqSourceUrl)
                meaningfulTimestamps == MeaningfulTimestamps(allData)
            IN  /\ queries' = <<[sourceUrl |-> reqSourceUrl]>>
                /\ response' =
                      [status |-> 200, success |-> TRUE,
                       timestamps |-> meaningfulTimestamps,
                       data |-> [i \in 1..Len(meaningfulTimestamps) |->
                                    Frame(allData, meaningfulTimestamps[i], tie)],
                       boatCount |-> Cardinality({d.name : d \in allData}),
                       totalTimestamps |-> Cardinality({d.scrapedAt : d \in allData}),
                       filteredTimestamps |-> Len(meaningfulTimestamps)]
    /\ UNCHANGED <<ingestVars, timeVars, req, reqSourceUrl, todayData, historicalData,
                   teamNames, tableData, computed>>

\* The map requests over every table of the model, with and without a sourceUrl.
MapInit ==
    /\ ServingFrom(MapStores)
    /\ RequestInit({CHOOSE z \in HostZones : z.name = "UTC"}, {0}, 0,
                   {[path |-> "map", name |-> "", sourceUrl |-> u] :
                       u \in {"", DEFAULT_URLS[1]}})

MapNext == \E tie \in 0..1 : getMapData(tie)

SpecMap == MapInit /\ [][MapNext]_vars

\* The read requests of the model: table, dates and map with and without a
\* sourceUrl, team with and without a name.
TableRequests ==
    {[path |-> pa, name |-> "", sourceUrl |-> u] :
        pa \in {"table", "dates", "map"}, u \in {"", DEFAULT_URLS[1]}}
    \cup {[path |-> "team", name |-> n, sourceUrl |-> DEFAULT_URLS[1]] :
            n \in {"", NameOrder[1], NameOrder[2]}}

\* The read requests over every table of the model, in both host zones.
TableInit ==
    /\ ServingFrom(TableStores)
    /\ RequestInit(HostZones, TableOffsets, TableDate, TableRequests)

TableNext ==
    \/ tableRead
    \/ \E tie \in 0..1 : tableTeam(tie)
    \/ tableRespond
    \/ \E startDate \in {0, TableDate}, endDate \in {0, TableDate}, tie \in 0..1 :
          getTeamAnalytics(startDate, endDate, tie)
    \/ getAvailableDates
    \/ \E tie \in 0..1 : getMapData(tie)

SpecTable == TableInit /\ [][TableNext]_vars

\* Timezone values outside -12..14: parseInt takes any integer.
WideOffsets == {0 - 30, 30}

\* The read requests with such a timezone, over every table of the model.
WideInit ==
    /\ ServingFrom(TableStores)
    /\ RequestInit({CHOOSE z \in HostZones : z.name = "UTC"}, WideOffsets, TableDate,
                   TableRequests)

SpecWide == WideInit /\ [][TableNext]_vars

\* ================================================================= claims
SameKey(a, b) ==
    a.name = b.name /\ a.sourceUrl = b.sourceUrl /\ a.lastUpdate = b.lastUpdate

KeyStored(s, row) == \E i \in 1..Len(s) : SameKey(s[i], row)

RowsOfTeam(s, n, u) == {i \in 1..Len(s) : s[i].name = n /\ s[i].sourceUrl = u}

\* Rows of the team that earlier cycles, scraped before instant at, left behind.
EarlierRows(s, n, u, at) == {i \in RowsOfTeam(s, n, u) : s[i].scrapedAt < at}

\* Label of the team's sample ingested by the latest of those cycles.
PreviousLabels(s, n, u, at) ==
    {s[i].lastUpdate : i \in {k \in EarlierRows(s, n, u, at) :
                                \A m \in EarlierRows(s, n, u, at) :
                                    s[m].scrapedAt <= s[k].scrapedAt}}

\* The step in which job j's upsert of its current row resolves.
UpsertStep(j) == pc[j] = "upsert" /\ upsertedCount'[j] = upsertedCount[j] + 1

\* The step in which job j's upsert of its current row rejects.
UpsertFailStep(j) == pc[j] = "upsert" /\ dbErrors'[j] = dbErrors[j] + 1

\* C1: whatever cycles have run, failed writes included, no two rows of the table
\* share (name, sourceUrl, lastUpdate).
C1_UniqueTriple ==
    \A i, k \in 1..Len(store) : SameKey(store[i], store[k]) => i = k

\* C1 witness: a cycle broke off after one write, and the table holds a refreshed
\* row beside another row.
C1_Witness ==
    /\ Len(store) >= 2
    /\ \E i \in 1..Len(store) : store[i].createdAt < store[i].updatedAt
    /\ \E j \in Jobs : pc[j] = "cycleEnd" /\ dbErrors[j] = 1 /\ upsertedCount[j] = 1

\* C2: while a cycle writes a batch all of whose keys are already stored, none of
\* its writes changes the number of rows.
C2_ReingestKeepsCount ==
    [][\A j \in Jobs :
          (UpsertStep(j) /\ \A i \in 1..Len(rowData[j]) : KeyStored(store, rowData[j][i]))
          => Len(store') = Len(store)]_vars

\* C2 witness: a cycle has written a batch of two samples whose rows both existed
\* before it, and the table still holds those two rows.
C2_Witness ==
    /\ Len(store) = 2
    /\ \E j \in Jobs : /\ pc[j] = "cycleEnd" /\ parsed[j] = 2 /\ upsertedCount[j] = 2
                       /\ \A i \in 1..2 : /\ store[i].createdAt < scrapedAt[j]
                                          /\ store[i].scrapedAt = scrapedAt[j]

\* The row being written is the first of its team in job j's batch.
FirstOfTeam(j) ==
    \A i \in 1..upsertedCount[j] : rowData[j][i].name # CurrentRow(j).name

\* C3 as claimed: a write of a team's sample whose label differs from the label of
\* the sample the latest earlier cycle ingested for the team adds one row for the
\* team and changes none of its rows.
C3_ChangedLabelCreates ==
    [][\A j \in Jobs :
          (/\ UpsertStep(j)
           /\ FirstOfTeam(j)
           /\ EarlierRows(store, CurrentRow(j).name, CurrentRow(j).sourceUrl, scrapedAt[j])
                  = RowsOfTeam(store, CurrentRow(j).name, CurrentRow(j).sourceUrl)
           /\ PreviousLabels(store, CurrentRow(j).name, CurrentRow(j).sourceUrl,
                             scrapedAt[j]) # {}
           /\ CurrentRow(j).lastUpdate \notin
                  PreviousLabels(store, CurrentRow(j).name, CurrentRow(j).sourceUrl,
                                 scrapedAt[j]))
          => /\ Cardinality(RowsOfTeam(store', CurrentRow(j).name, CurrentRow(j).sourceUrl))
                  = Cardinality(RowsOfTeam(store, CurrentRow(j).name,
                                           CurrentRow(j).sourceUrl)) + 1
             /\ \A i \in 1..Len(store) : store'[i] = store[i]]_vars

\* C3 amended: a successful write of a sample whose label no stored row of that
\* team and source carries adds exactly one row for the team and changes no
\* existing row.
C3_UnseenLabelCreates ==
    [][\A j \in Jobs :
          (UpsertStep(j) /\ ~KeyStored(store, CurrentRow(j)))
          => /\ Len(store') = Len(store) + 1
             /\ Cardinality(RowsOfTeam(store', CurrentRow(j).name, CurrentRow(j).sourceUrl))
                  = Cardinality(RowsOfTeam(store, CurrentRow(j).name,
                                           CurrentRow(j).sourceUrl)) + 1
             /\ SameKey(store'[Len(store')], CurrentRow(j))
             /\ \A i \in 1..Len(store) : store'[i] = store[i]]_vars

\* C3 witness: a team of a source has two rows, the second created by a later
\* cycle than the first.
C3_Witness ==
    \E i, k \in 1..Len(store) :
        /\ store[i].name = store[k].name /\ store[i].sourceUrl = store[k].sourceUrl
        /\ store[i].lastUpdate # store[k].lastUpdate
        /\ store[i].createdAt < store[k].createdAt

\* C4: a write that hits an existing key replaces the eleven data fields by the
\* sample's, stamps scrapedAt with the cycle's scrape instant and leaves id, name,
\* sourceUrl, lastUpdate and createdAt of the row, and every other row, as they were.
C4_UpdateFrame ==
    [][\A j \in Jobs :
          (UpsertStep(j) /\ KeyStored(store, CurrentRow(j)))
          => /\ Len(store') = Len(store)
             /\ \A i \in 1..Len(store) :
                   IF SameKey(store[i], CurrentRow(j))
                   THEN /\ store'[i].no = CurrentRow(j).no
                        /\ store'[i].device = CurrentRow(j).device
                        /\ store'[i].latitude = CurrentRow(j).latitude
                        /\ store'[i].longitude = CurrentRow(j).longitude
                        /\ store'[i].latitudeDecimal = CurrentRow(j).latitudeDecimal
                        /\ store'[i].longitudeDecimal = CurrentRow(j).longitudeDecimal
                        /\ store'[i].speed = CurrentRow(j).speed
                        /\ store'[i].course = CurrentRow(j).course
                        /\ store'[i].nextWaypoint = CurrentRow(j).nextWaypoint
                        /\ store'[i].dtf = CurrentRow(j).dtf
                        /\ store'[i].vmg = CurrentRow(j).vmg
                        /\ store'[i].scrapedAt = scrapedAt[j]
                        /\ store'[i].id = store[i].id
                        /\ store'[i].name = store[i].name
                        /\ store'[i].sourceUrl = store[i].sourceUrl
                        /\ store'[i].lastUpdate = store[i].lastUpdate
                        /\ store'[i].createdAt = store[i].createdAt
                   ELSE store'[i] = store[i]]_vars

\* C4 witness: the row of an earlier run now carries the cells of the other page
\* variant and the scrape instant of a cycle of this run.
C4_Witness ==
    \E i \in 1..Len(store) :
        /\ store[i].createdAt = 0
        /\ store[i].scrapedAt = 2
        /\ store[i].speed = "4.0 knots"
        /\ store[i].longitudeDecimal = ""

\* C5 as claimed: when the write of a sample fails and samples follow it in the
\* batch, the cycle goes on writing.
C5_BatchContinues ==
    [][\A j \in Jobs :
          (UpsertFailStep(j) /\ upsertedCount[j] + 1 < Len(rowData[j]))
          => pc'[j] = "upsert"]_vars

\* C6: a cycle that reached the store block has its CSV files on disk, and one
\* whose store block failed still has them and ends by returning.
C6_StoreFailureContained ==
    \A j \in Jobs :
        /\ pc[j] \in {"connect", "upsert"}
              => /\ <<CurrentUrl(j), scrapedAt[j]>> \in csvFiles
                 /\ latestCsv[CurrentUrl(j)] # 0
        /\ (pc[j] = "cycleEnd" /\ dbErrors[j] > 0)
              => /\ cycleResult[j] = "returned"
                 /\ <<CurrentUrl(j), scrapedAt[j]>> \in csvFiles
                 /\ latestCsv[CurrentUrl(j)] # 0

\* C6 witness: a cycle ended after a failed write that followed a successful one.
C6_Witness ==
    \E j \in Jobs :
        /\ pc[j] = "cycleEnd" /\ dbErrors[j] = 1 /\ upsertedCount[j] = 1
        /\ parsed[j] = 2

\* C7: a call without url starts the default sources in list order, whatever the
\* earlier ones did, and ends by returning after the last.
C7_DefaultSourcesInOrder ==
    \A j \in Jobs :
        (url[j] = "" /\ pc[j] # "idle")
        => /\ jobResult[j] # "threw"
           /\ pc[j] # "done" => attempted[j] = SubSeq(DEFAULT_URLS, 1, pos[j])
           /\ pc[j] = "done" => attempted[j] = DEFAULT_URLS /\ jobResult[j] = "returned"

\* C7 witness: a call without url has ended although its first source threw.
C7_Witness ==
    \E j \in Jobs :
        /\ url[j] = "" /\ pc[j] = "done"
        /\ scrapeErrors[j] # <<>> /\ scrapeErrors[j][1] = DEFAULT_URLS[1]

\* No gap and no overlap: every hour of the day lies in exactly one window, and
\* each window starts where the one before it ends.
WindowsPartitionDay ==
    /\ windows[1].start = 0
    /\ windows[Len(windows)].end = 24
    /\ \A i \in 1..(Len(windows) - 1) : windows[i].end = windows[i + 1].start
    /\ \A h \in 0..23 :
          Cardinality({i \in 1..Len(windows) :
                          h >= windows[i].start /\ h < windows[i].end}) = 1

\* C8: for every UTC hour and every offset in [-12,14] the local hour is
\* (hourUtc + H + 24) mod 24, lies in 0..23 and is kept by exactly one window filter.
C8_OneWindowPerHour ==
    /\ WindowsPartitionDay
    /\ tpc \in {"table", "team"}
          => /\ localHour \in 0..23
             /\ localHour = (UTCHours(sampleAt) + timezoneOffset + 24) % 24
             /\ Cardinality(windowsHit) = 1

\* C8 witness: midnight UTC seen under offset -12 is hour 12.
C8_Witness ==
    /\ tpc = "table" /\ timezoneOffset = 0 - 12
    /\ UTCHours(sampleAt) = 0 /\ localHour = 12

\* C9 as claimed: a sample is in the read of the target date exactly when its
\* local date under the offset is the target date.
C9_RangeIffLocalDate ==
    tpc = "table" => (inToday <=> DateKey(sampleAt, timezoneOffset) = targetDate)

\* C10 as claimed: the read of today holds exactly the samples of local date D,
\* the historical read exactly those of the local dates D-7..D-1, and no sample
\* is in both.
C10_ReadsSplitDays ==
    tpc = "table"
    => /\ inToday <=> DateKey(sampleAt, timezoneOffset) = targetDate
       /\ inHistorical <=> DateKey(sampleAt, timezoneOffset)
                              \in (targetDate - 7)..(targetDate - 1)
       /\ ~(inToday /\ inHistorical)

\* The entries of all teams and windows in a table body.
WindowEntries(data) ==
    {data[i].timeWindowData[w] : i \in 1..Len(data), w \in 1..Len(windows)}

\* n is num / den rounded to the nearest integer, den > 0.
IsRounded(n, num, den) ==
    LET e == n * den - num IN 2 * (IF e < 0 THEN 0 - e ELSE e) <= den

\* C11: once the two range reads of a table request are done, its work on the
\* teams and the windows issues no read: from then on to the response the request
\* has issued exactly the read of the date and the read of the seven days before.
C11_TwoRangeReads ==
    rpc \in {"tableTeams", "tableDone"}
    => /\ Len(queries) = 2
       /\ queries[1] = [sourceUrl |-> reqSourceUrl, gte |-> startOfDay, op |-> "lte",
                        to |-> endOfDay]
       /\ queries[2] = [sourceUrl |-> reqSourceUrl, gte |-> sevenDaysAgo, op |-> "lt",
                        to |-> startOfDay]
       /\ Len(tableData) <= Len(teamNames)

\* C11 witness: a table of two teams, one of them with several samples, has been
\* answered.
C11_Witness ==
    /\ rpc = "tableDone"
    /\ response.count = 2
    /\ response.data[1].dataPoints = 3
    /\ response.data[2].historicalDataPoints = 2
    /\ Len(queries) = 2

\* C12: in the table sent, diff is current - sevenDayAvg where both are numbers and
\* null elsewhere; percentChange is null where either is null and, over a baseline
\* other than zero, 100 * diff / sevenDayAvg rounded to 1 decimal.
C12_DiffAndPercent ==
    rpc = "tableDone"
    => \A e \in WindowEntries(response.data) :
          IF e.current.kind = "number" /\ e.sevenDayAvg.kind = "number"
          THEN /\ e.diff = Num(e.current.val - e.sevenDayAvg.val)
               /\ e.sevenDayAvg.val # 0
                     => /\ e.percentChange.kind = "number"
                        /\ IsRounded(e.percentChange.val, 1000 * e.diff.val,
                                     e.sevenDayAvg.val)
          ELSE e.diff = Null /\ e.percentChange = Null

\* C12 witness: current 3.45 over sevenDayAvg 3.21 gives diff 0.24 and 7.5 percent.
C12_Witness ==
    /\ rpc = "tableDone"
    /\ \E e \in WindowEntries(response.data) :
          /\ e.current = Num(345) /\ e.sevenDayAvg = Num(321)
          /\ e.diff = Num(24) /\ e.percentChange = Num(75)

C14_TeamUnion ==
    rpc = "tableDone"
    => /\ {response.data[i].teamName : i \in 1..Len(response.data)}
             = {d.name : d \in todayData \cup historicalData}
       /\ \A i, k \in 1..Len(response.data) :
             i < k => NameRank(response.data[i].teamName)
                         < NameRank(response.data[k].teamName)
       /\ \A i \in 1..Len(response.data) :
             LET e == response.data[i]
                 today == \E d \in todayData : d.name = e.teamName
                 before == \E d \in historicalData : d.name = e.teamName
             IN  /\ ~today => /\ \A w \in 1..Len(windows) :
                                    e.timeWindowData[w].current = Null
                              /\ \E w \in 1..Len(windows) :
                                    e.timeWindowData[w].sevenDayAvg.kind = "number"
                              /\ e.sevenDayAverage.kind = "number"
                 /\ ~before => /\ \A w \in 1..Len(windows) :
                                     e.timeWindowData[w].sevenDayAvg = Null
                               /\ e.sevenDayAverage = Null

\* C14 witness: a table of two teams, the first with samples of the trailing days
\* only, the second with samples of the date only.
C14_Witness ==
    /\ rpc = "tableDone"
    /\ Len(response.data) = 2
    /\ response.data[1].dataPoints = 0 /\ response.data[1].historicalDataPoints = 2
    /\ response.data[2].dataPoints = 1 /\ response.data[2].historicalDataPoints = 0

\* The rows a team request read.
TeamData ==
    TeamWhere(store, hostZone, queries[1].name, queries[1].sourceUrl,
              queries[1].startDate, queries[1].endDate, timezoneOffset)

\* The rows of one local day and window among them.
DayWindowRows(day, w) ==
    {d \in TeamData : /\ DateKey(d.scrapedAt, timezoneOffset) = day
                      /\ LocalHour(d.scrapedAt, timezoneOffset) \in w.start..(w.end - 1)}

\* C15: in the daily stats sent, the entry of a day and window counts exactly the
\* samples of that local day whose local hour lies in the window, and its avgSpeed
\* is their mean speed, an unparsable speed taken as 0, rounded to 2 decimals.
C15_WindowAverage ==
    (rpc = "teamDone" /\ response.status = 200)
    => \A i \in 1..Len(response.data.dailyStats) :
          LET day == response.data.dailyStats[i]
          IN  \A k \in 1..Len(day.timeWindows) :
                 LET tw == day.timeWindows[k]
                     rows == DayWindowRows(day.date,
                                           [start |-> tw.startHour, end |-> tw.endHour])
                 IN  /\ \E w \in 1..Len(windows) :
                           windows[w] = [name |-> tw.window, start |-> tw.startHour,
                                         end |-> tw.endHour]
                     /\ tw.dataPoints = Cardinality(rows)
                     /\ rows # {}
                     /\ IsRounded(tw.avgSpeed, SumSpeeds(rows), Cardinality(rows))

\* C15 witness: speeds 3.0 and 4.0 at local hour 1 under offset 0 give the window
\* 00:00-04:00 an avgSpeed of 3.50 over 2 samples.
C15_Witness ==
    /\ rpc = "teamDone" /\ response.status = 200 /\ timezoneOffset = 0
    /\ \E i \in 1..Len(response.data.dailyStats) :
          /\ response.data.dailyStats[i].date = TableDate
          /\ response.data.dailyStats[i].timeWindows[1] =
                 [window |-> "00:00-04:00", startHour |-> 0, endHour |-> 4,
                  avgSpeed |-> 350, dataPoints |-> 2]
          /\ \A d \in DayWindowRows(TableDate, windows[1]) :
                LocalHour(d.scrapedAt, 0) = 1 /\ d.speed \in {"3.0 knots", "4.0 knots"}

\* C16: the daily stats list a window exactly when it kept a sample of the day, and
\* the table gives current, and sevenDayAvg, of a window as null exactly when the
\* window kept no sample of the team in the read of the date, and of the seven days.
C16_EmptyWindowNotZero ==
    /\ (rpc = "teamDone" /\ response.status = 200)
          => \A i \in 1..Len(response.data.dailyStats) :
                LET day == response.data.dailyStats[i]
                IN  /\ \A k \in 1..Len(day.timeWindows) : day.timeWindows[k].dataPoints > 0
                    /\ \A w \in 1..Len(windows) :
                          (DayWindowRows(day.date, windows[w]) = {})
                             <=> (\A k \in 1..Len(day.timeWindows) :
                                     day.timeWindows[k].window # windows[w].name)
    /\ rpc = "tableDone"
          => \A i \in 1..Len(response.data), w \in 1..Len(windows) :
                LET e == response.data[i]
                IN  /\ e.timeWindowData[w].current = Null
                       <=> WindowRows({d \in todayData : d.name = e.teamName},
                                      windows[w], timezoneOffset) = {}
                    /\ e.timeWindowData[w].sevenDayAvg = Null
                       <=> WindowRows({d \in historicalData : d.name = e.teamName},
                                      windows[w], timezoneOffset) = {}

\* C16 witness: a day of three samples is sent with two windows, the other four
\* left out.
C16_Witness ==
    /\ rpc = "teamDone" /\ response.status = 200
    /\ \E i \in 1..Len(response.data.dailyStats) :
          /\ response.data.dailyStats[i].dataPoints = 3
          /\ Len(response.data.dailyStats[i].timeWindows) = 2

\* The distinct scrapedAt instants of the source a map request asked for.
SourceInstants == {d.scrapedAt : d \in AllData(store, reqSourceUrl)}

\* The boats of the source a map request asked for.
SourceBoats == {d.name : d \in AllData(store, reqSourceUrl)}

\* C17 as claimed: an instant is retained exactly when the number of boats with a
\* sample at it is at least max(1, ceil(totalBoats * 0.5)).
C17_RetainedIffHalfRoundedUp ==
    (rpc = "mapDone" /\ response.status = 200)
    => \A t \in SourceInstants :
          (\E i \in 1..Len(response.timestamps) : response.timestamps[i] = t)
          <=> LET half == (Cardinality(SourceBoats) + 1) \div 2
              IN  Cardinality(BoatsAt(AllData(store, reqSourceUrl), t))
                     >= (IF half > 1 THEN half ELSE 1)

\* C18: the map body lists the retained instants in strictly descending order, all
\* of them instants of the source; totalTimestamps counts the distinct instants of
\* the source, filteredTimestamps the retained ones, and data holds one frame per
\* retained instant in the same order.
C18_RetainedDescending ==
    (rpc = "mapDone" /\ response.status = 200)
    => /\ \A i, k \in 1..Len(response.timestamps) :
             i < k => response.timestamps[i] > response.timestamps[k]
       /\ \A i \in 1..Len(response.timestamps) : response.timestamps[i] \in SourceInstants
       /\ response.totalTimestamps = Cardinality(SourceInstants)
       /\ response.filteredTimestamps = Len(response.timestamps)
       /\ Len(response.data) = Len(response.timestamps)
       /\ \A i \in 1..Len(response.data) :
             response.data[i].timestamp = response.timestamps[i]

\* C18 witness: of three instants the latest and the earliest are retained.
C18_Witness ==
    /\ rpc = "mapDone" /\ response.status = 200
    /\ response.totalTimestamps = 3 /\ response.filteredTimestamps = 2
    /\ response.timestamps = <<MapInstants[3], MapInstants[1]>>
    /\ Len(response.data[1].boats) = 2

\* The samples of a boat of the source scraped before instant t.
EarlierSamples(n, t) ==
    {d \in AllData(store, reqSourceUrl) : d.name = n /\ d.scrapedAt < t}

\* The latest of them.
ClosestEarlier(n, t) ==
    CHOOSE d \in EarlierSamples(n, t) :
        \A e \in EarlierSamples(n, t) : e.scrapedAt <= d.scrapedAt

\* The boat entries of frame i of the map body.
BoatsOfFrame(i) == {response.data[i].boats[k] : k \in 1..Len(response.data[i].boats)}

\* C19: in every frame the comparison of a boat is made with the boat's own latest
\* sample before the frame's instant, retained or not; a boat without an earlier
\* sample has no comparison.
C19_AgainstOwnPrevious ==
    (rpc = "mapDone" /\ response.status = 200)
    => \A i \in 1..Len(response.data) :
          \A b \in BoatsOfFrame(i) :
             IF EarlierSamples(b.name, response.data[i].timestamp) = {}
             THEN b.prevAvgSpeed = Null /\ b.speedDiff = Null
             ELSE LET p == ClosestEarlier(b.name, response.data[i].timestamp)
                  IN  /\ b.prevAvgSpeed = Num(SpeedOf(p))
                      /\ b.speedDiff = Num(b.speed - SpeedOf(p))
                      /\ SpeedOf(p) # 0
                            => /\ b.percentChange.kind = "number"
                               /\ IsRounded(b.percentChange.val,
                                            1000 * (b.speed - SpeedOf(p)), SpeedOf(p))

\* C19 witness: the middle instant is not retained, and a boat with samples at all
\* three instants is compared, in the frame of the latest, with its sample of the
\* middle one.
C19_Witness ==
    /\ rpc = "mapDone" /\ response.status = 200
    /\ response.timestamps = <<MapInstants[3], MapInstants[1]>>
    /\ \E b \in BoatsOfFrame(1) :
          /\ b.name = NameOrder[2]
          /\ b.prevAvgSpeed = Num(345)
          /\ b.speedDiff = Num(300 - 345)
          /\ Cardinality(EarlierSamples(b.name, MapInstants[3])) = 2

\* C20 as claimed: the percentChange of a boat in a frame is null when the boat has
\* no earlier sample or the speed of its previous sample is zero.
C20_NullOnMissingBaseline ==
    (rpc = "mapDone" /\ response.status = 200)
    => \A i \in 1..Len(response.data) :
          \A b \in BoatsOfFrame(i) :
             (b.prevAvgSpeed = Null \/ b.prevAvgSpeed = Num(0))
                => b.percentChange = Null

\* The samples of the source scraped at instant t.
SamplesAt(t) == {d \in AllData(store, reqSourceUrl) : d.scrapedAt = t}

\* C21: a boat whose stored decimal latitude or longitude is not a number is in
\* the boat list of no frame, while its samples count in boatCount, in the
\* threshold taken from it, and in the number of boats at an instant that is
\* compared with the threshold.
C21_NoCoordinatesStillCounted ==
    (rpc = "mapDone" /\ response.status = 200)
    => /\ \A i \in 1..Len(response.data) :
             {b.name : b \in BoatsOfFrame(i)}
                = {d.name : d \in {e \in SamplesAt(response.data[i].timestamp) :
                                      e.latitudeDecimal # "" /\ e.longitudeDecimal # ""}}
       /\ response.boatCount = Cardinality(SourceBoats)
       /\ \A t \in SourceInstants :
             (\E i \in 1..Len(response.timestamps) : response.timestamps[i] = t)
             <=> Cardinality({d.name : d \in SamplesAt(t)})
                    >= MinBoatsThreshold(response.boatCount)

\* C21 witness: of four boats one has no decimal longitude; an instant with a
\* sample of it and of one other boat reaches the threshold of two and is retained,
\* and its frame lists the other boat alone.
C21_Witness ==
    /\ rpc = "mapDone" /\ response.status = 200
    /\ response.boatCount = 4
    /\ \E i \in 1..Len(response.data) :
          /\ {d.name : d \in SamplesAt(response.data[i].timestamp)}
                = {NameOrder[1], NameOrder[4]}
          /\ \E d \in SamplesAt(response.data[i].timestamp) :
                d.name = NameOrder[4] /\ d.longitudeDecimal = ""
          /\ {b.name : b \in BoatsOfFrame(i)} = {NameOrder[1]}

\* A read handler has answered the request.
Answered == rpc \in {"tableRejected", "tableDone", "teamDone", "datesDone", "mapDone"}

\* The request lacks the parameter its handler requires.
LacksRequired == IF req.path = "team" THEN req.name = "" ELSE reqSourceUrl = ""

\* C22: a read request without its required parameter (name for team; sourceUrl for
\* table, dates and map) is answered 400 with success false and no read of the
\* store; a team request whose read matches no row is answered 404; a success body
\* is sent only after the handler's reads (two for the table, one otherwise), and
\* nothing is sent before.
C22_RejectedBeforeAnyRead ==
    /\ ~Answered => response.status = 0
    /\ Answered =>
          /\ LacksRequired
                => response.status = 400 /\ ~response.success /\ queries = <<>>
          /\ ~LacksRequired => Len(queries) = (IF req.path = "table" THEN 2 ELSE 1)
          /\ (req.path = "team" /\ ~LacksRequired)
                => (response.status = (IF TeamWhere(store, hostZone, queries[1].name,
                                                    queries[1].sourceUrl,
                                                    queries[1].startDate,
                                                    queries[1].endDate,
                                                    timezoneOffset) = {}
                                       THEN 404 ELSE 200))
          /\ response.status = 404 => ~response.success
          /\ response.status = 200 => response.success /\ ~LacksRequired

\* C22 witness: over a table with rows, a dates request without a sourceUrl has
\* been answered 400 and nothing was read.
C22_Witness ==
    /\ rpc = "datesDone" /\ reqSourceUrl = "" /\ Len(store) > 0
    /\ response.status = 400 /\ ~response.success /\ queries = <<>>

RECURSIVE UpsertAll(_, _, _, _)
\* A cycle's writes run alone and in order over table s.
UpsertAll(s, rows, at, clock) ==
    IF rows = <<>> THEN s
    ELSE UpsertAll(Upsert(s, Head(rows), at, clock), Tail(rows), at, clock)

\* The samples of a table: every column but the surrogate id and the wall-clock
\* createdAt and updatedAt, which no two runs reproduce.
Samples(s) ==
    {[s[i] EXCEPT !.id = 0, !.createdAt = 0, !.updatedAt = 0] : i \in 1..Len(s)}

\* The rows of its batch a cycle has written.
Written(j) == SubSeq(rowData[j], 1, upsertedCount[j])

\* Jobs j and k have each ended their first cycle, and no other cycle has run.
OnlyCycles(j, k) ==
    /\ j # k /\ cycles = 2
    /\ pc[j] = "cycleEnd" /\ pc[k] = "cycleEnd"
    /\ Len(attempted[j]) = 1 /\ Len(attempted[k]) = 1

\* C23: while cycles of different sources interleave at upsert boundaries, an upsert
\* of a cycle for source S leaves every row of another source as it was and adds
\* only rows of S; and when the two cycles have ended, the table holds the samples
\* that running one whole cycle and then the other, in either order, would leave.
C23_SourcesIndependent ==
    /\ [](\A j, k \in Jobs :
             (OnlyCycles(j, k) /\ CurrentUrl(j) # CurrentUrl(k))
             => \E s0 \in InitialStores :
                   /\ Samples(store)
                         = Samples(UpsertAll(UpsertAll(s0, Written(j), scrapedAt[j], 0),
                                             Written(k), scrapedAt[k], 0))
                   /\ Samples(store)
                         = Samples(UpsertAll(UpsertAll(s0, Written(k), scrapedAt[k], 0),
                                             Written(j), scrapedAt[j], 0)))
    /\ [][\A j \in Jobs :
             UpsertStep(j)
             => /\ Len(store') >= Len(store)
                /\ \A i \in 1..Len(store) :
                      store[i].sourceUrl # CurrentUrl(j) => store'[i] = store[i]
                /\ \A i \in (Len(store) + 1)..Len(store') :
                      store'[i].sourceUrl = CurrentUrl(j)]_vars

\* C23 witness: two cycles of different sources have each written two rows into an
\* empty table, their upserts alternating.
C23_Witness ==
    /\ \E j, k \in Jobs :
          /\ OnlyCycles(j, k) /\ CurrentUrl(j) # CurrentUrl(k)
          /\ upsertedCount[j] = 2 /\ upsertedCount[k] = 2
    /\ Len(store) = 4
    /\ store[1].sourceUrl = store[3].sourceUrl
    /\ store[2].sourceUrl = store[4].sourceUrl
    /\ store[1].sourceUrl # store[2].sourceUrl

\* Job j is inside scrapeSingleUrl: a cycle for CurrentUrl(j) is in flight.
CycleInFlight(j) == pc[j] \in {"fetch", "csv", "connect", "upsert"}

\* C24 as claimed: whatever triggers fire (cron, startup, /scrape-now, /scrape-url),
\* no two cycles for the same source are in flight at the same time.
C24_OneCyclePerSource ==
    \A j, k \in Jobs :
        (j # k /\ CycleInFlight(j) /\ CycleInFlight(k)) => CurrentUrl(j) # CurrentUrl(k)

\* C25: the step that ends a cycle's fetch writes neither file nor row; when the
\* fetch failed the cycle ends by throwing, when the page held no row it ends by
\* returning, and only a page with a row goes on to the CSV files. Whatever step
\* writes a CSV file or a row belongs to a cycle whose fetch succeeded with at
\* least one parsed row.
C25_NothingWrittenWithoutRows ==
    [][/\ \A j \in Jobs :
             (pc[j] = "fetch" /\ pc'[j] # "fetch")
             => /\ store' = store /\ csvFiles' = csvFiles /\ latestCsv' = latestCsv
                /\ pc'[j] \in {"cycleEnd", "csv"}
                /\ pc'[j] = "cycleEnd"
                      => /\ parsed'[j] = 0 /\ rowData'[j] = <<>>
                         /\ cycleResult'[j] = (IF scrapedAt'[j] = 0
                                               THEN "threw" ELSE "returned")
                /\ pc'[j] = "csv" => parsed'[j] >= 1 /\ scrapedAt'[j] # 0
       /\ (store' # store \/ csvFiles' # csvFiles \/ latestCsv' # latestCsv)
             => \E j \in Jobs :
                   /\ pc[j] \in {"csv", "upsert"}
                   /\ parsed[j] >= 1 /\ scrapedAt[j] # 0]_vars

\* C25 witness: the first cycle fetched a page without rows and ended by returning;
\* no CSV file exists and the table is as it was.
C25_Witness ==
    \E j \in Jobs :
        /\ pc[j] = "cycleEnd" /\ cycles = 1
        /\ scrapedAt[j] # 0 /\ parsed[j] = 0 /\ cycleResult[j] = "returned"
        /\ csvFiles = {} /\ store \in InitialStores

\* C26 as claimed: when two cycles of the same source have interleaved their
\* upserts and ended, the table holds the samples that running one whole cycle and
\* then the other, in one of the two orders, would leave: every row written by both
\* carries the scrapedAt of the same cycle.
C26_SameSourceSerializable ==
    \A j, k \in Jobs :
        (OnlyCycles(j, k) /\ CurrentUrl(j) = CurrentUrl(k))
        => \E s0 \in InitialStores :
              \/ Samples(store)
                    = Samples(UpsertAll(UpsertAll(s0, Written(j), scrapedAt[j], 0),
                                        Written(k), scrapedAt[k], 0))
              \/ Samples(store)
                    = Samples(UpsertAll(UpsertAll(s0, Written(k), scrapedAt[k], 0),
                                        Written(j), scrapedAt[j], 0))

\* C27 as claimed: a stored sample whose scrapedAt lies in the inclusive range
\* lo..hi of a local date that has ended stays in that range whatever a later
\* cycle, scraped after hi, writes.
C27_PastDateStable ==
    [][\A j \in Jobs :
          UpsertStep(j)
          => \A i \in 1..Len(store) :
                \A lo, hi \in {0} \cup Instants :
                   (/\ lo <= store[i].scrapedAt /\ store[i].scrapedAt <= hi
                    /\ hi < scrapedAt[j])
                   => (lo <= store'[i].scrapedAt /\ store'[i].scrapedAt <= hi)]_vars

RECURSIVE SumDataPoints(_)
\* The dataPoints of a list of entries added up.
SumDataPoints(entries) ==
    IF entries = <<>> THEN 0
    ELSE Head(entries).dataPoints + SumDataPoints(Tail(entries))

\* C28 as claimed: for any integer timezone, every sample of a local day is counted
\* in exactly one window: the dataPoints of a day's windows add up to the day's
\* dataPoints, and the dataPoints of the days to the number of samples read.
C28_WindowsAddUp ==
    (rpc = "teamDone" /\ response.status = 200)
    => /\ \A i \in 1..Len(response.data.dailyStats) :
             SumDataPoints(response.data.dailyStats[i].timeWindows)
                = response.data.dailyStats[i].dataPoints
       /\ SumDataPoints(response.data.dailyStats) = Cardinality(TeamData)

\* C29: after serialized cycles whose batches list a team once at most and whose
\* scrape instants differ, no two rows of the same team and source share a
\* scrapedAt.
C29_OneRowPerTeamInstant ==
    \A i, k \in 1..Len(store) :
        (i # k /\ store[i].name = store[k].name /\ store[i].sourceUrl = store[k].sourceUrl)
        => store[i].scrapedAt # store[k].scrapedAt

\* C29 witness: two cycles have each written a row of the same team and source, the
\* first by updating the row it found, the second by creating one under a new label.
C29_Witness ==
    /\ cycles = 2 /\ Len(store) = 2
    /\ store[1].name = store[2].name /\ store[1].sourceUrl = store[2].sourceUrl
    /\ store[1].scrapedAt = 1 /\ store[1].createdAt = 0
    /\ store[2].scrapedAt = 2

\* The calls of ensureConnection that found isConnected false and await
\* prisma.$connect.
Connecting == {j \in Jobs : pc[j] = "connect"}

\* C30 as claimed, its last part: calls of ensureConnection that overlap at the
\* connect await never have more than one connect under way.
C30_OneConnectInFlight == Cardinality(Connecting) <= 1

====
